---- MODULE Spec2Model ----
(***************************************************************************)
(* Dashboard grid layout, bulk rearrangement and undo.                     *)
(*                                                                         *)
(*   SpecUndo    the undo manager on its own (initializeUndoManager):      *)
(*               pushUndo, runUndo and the settling of a popped reversal   *)
(*               action, with opaque reversal actions.                     *)
(*   SpecLayout  applySelectedPanelsLayout as a pure function of a layout, *)
(*               an insertion-ordered selection and a mode.                *)
(*   SpecDash    the dashboard: context-menu bulk rearrange, the           *)
(*               share-color-mapping action and the undo shortcut,         *)
(*               interleaved at their awaits.                              *)
(*   SpecReflow  bulk rearrange (once and repeated), prettifyDashboard and  *)
(*               onLayoutChange, on small and on wide layouts.             *)
(*   SpecGrid    DashboardGrid's selection-drag gesture: mousedown,        *)
(*               mousemove, mouseup, click, view mode and panel selection. *)
(*   SpecKeys    the viewport's copy, paste and undo shortcuts.            *)
(*   SpecMenu    Duplicate and Remove from the context menu and from the   *)
(*               top navigation, over collaborators that may fail.         *)
(*   SpecLens    the Lens embeddable's getBreakdownFieldOptions and        *)
(*               setBreakdownField, over data views that may not resolve.  *)
(*   SpecHistory a bulk rearrange followed by prettify and drags, and the   *)
(*               undo shortcut.                                            *)
(*   SpecShare   the share-color-mapping action over several Lens panels,  *)
(*               and the undo shortcut.                                    *)
(***************************************************************************)
EXTENDS Integers, Sequences, FiniteSets, TLC

VARIABLES
    stack,        \* undo_manager.ts: const stack: UndoFn[]
    canUndo,      \* undo_manager.ts: canUndo$ (BehaviorSubject<boolean>)
    pending,      \* number of popped reversal actions whose promise has not settled
    ran,          \* reversal actions started by runUndo, in the order they were started
    nextId,       \* identity given to the next reversal action handed to pushUndo
    lastOp,       \* the branch taken by the last call
    inLayout,     \* SpecLayout: the layout passed to applySelectedPanelsLayout
    inSelected,   \* SpecLayout: the selected ids, in the Set's insertion order
    inMode,       \* SpecLayout: the mode passed
    outLayout,    \* SpecLayout: the layout returned
    outRaised,    \* SpecLayout: the call raised instead of returning
    lpc,          \* SpecLayout: "input" before the call, "done" after it
    gridLayout,   \* the GridLayoutData handed to onLayoutChange
    outAgain,     \* the layout returned when the call is repeated on outLayout
    dashboardLayout,  \* dashboardApi.layout$
    selectedIds,  \* dashboardApi.selectedPanelIds$, in insertion order
    attrs,        \* per Lens panel, what getFullAttributes() returns
    spc,          \* ShareColorMappingAction.execute: "idle", or "awaitChild" at line 140
    sSource,      \* execute: sourceLayerConfigs
    sEmbeddable,  \* execute: embeddable.uuid, "none" when execute is not running
    sIds,         \* execute: the selected ids still to visit, the awaited one first
    sPrev,        \* execute: previousAttributesByPanel
    upc,          \* a reversal of a color-mapping entry: "idle", or "awaitChild" at line 158
    uRest,        \* that reversal: the entries still to restore, the awaited one first
    beforeRearrange,  \* the layouts read and written by the last handleLayoutSubAction
    viewMode,     \* dashboardApi.viewMode$
    pointerDown,  \* a mouse button is held down
    pointerAt,    \* clientX, clientY of the last mouse event
    downShift,    \* shiftKey of the last mousedown
    listening,    \* onMove and onUp are registered on document
    gestureStart, \* handleGridMouseDown: start, as captured by onMove and onUp
    dragStateRef, \* dragStateRef.current: <<>> for null, else <<[start, current]>>
    selectionDrag,  \* the selectionDrag state: <<>> for null, else <<[start, current]>>
    previewSelectedPanelIds,  \* the previewSelectedPanelIds state, in insertion order
    justDidSelectionDragRef,  \* justDidSelectionDragRef.current
    pendingClick, \* the click event the browser still owes for the last mouseup:
                  \* "none", "plain", or "afterDrag" when that mouseup ended a drag
    copiedPanelIds,  \* dashboardApi.copiedPanelIds$, in insertion order
    keyEvent,     \* the last keydown event and document.activeElement at that time
    dispatched,   \* the dashboardApi method the last keydown called, or "none"
    contextMenu,  \* PanelContextMenu as rendered: <<>> when it is not, else <<panelId>>
    hasSingle,    \* dashboardApi.duplicatePanel and removePanel are defined
    hasBatch,     \* dashboardApi.duplicatePanels and removePanels are defined
    dpc,          \* a Duplicate in flight: "idle", or the await it is suspended at
    dRest,        \* that Duplicate: the ids still to duplicate, the awaited one first
    dOrigin,      \* that Duplicate: started from the "menu" or from the "topnav"
    effectiveIds, \* `ids` of the last Duplicate or Remove, in iteration order
    calls,        \* the collaborator calls of the last Duplicate or Remove, in order
    handlerResult,  \* how that handler ended: "none", "pending", "returned", "raised"
    lensAttributes,  \* the Lens embeddable: getLatestState().attributes
    bpc,          \* a breakdown-field call: "idle", the await it is suspended at,
                  \* or "optionsReturned" / "setReturned" once it has ended
    bCall,        \* that call: <<>>, else <<[attributes, fieldName, get, replaced]>>
    bOptions,     \* what the last getBreakdownFieldOptions resolved to
    bResult,      \* how the last setBreakdownField (Impl) ended: <<>>, else <<[kind, value]>>
    updateCalls   \* the arguments of the updateAttributes calls, in order

undoVars == <<stack, canUndo, pending, ran, nextId, lastOp>>

layoutVars == <<inLayout, inSelected, inMode, outLayout, outRaised, lpc, gridLayout,
                outAgain>>

dashVars == <<dashboardLayout, selectedIds, attrs, spc, sSource, sEmbeddable, sIds, sPrev, upc, uRest,
              beforeRearrange>>

gridVars == <<viewMode, pointerDown, pointerAt, downShift, listening, gestureStart,
              dragStateRef, selectionDrag, previewSelectedPanelIds,
              justDidSelectionDragRef, pendingClick>>

menuVars == <<copiedPanelIds, keyEvent, dispatched, contextMenu, hasSingle, hasBatch,
              dpc, dRest, dOrigin, effectiveIds, calls, handlerResult>>

lensVars == <<lensAttributes, bpc, bCall, bOptions, bResult, updateCalls>>

vars == <<stack, canUndo, pending, ran, nextId, lastOp,
          inLayout, inSelected, inMode, outLayout, outRaised, lpc, gridLayout, outAgain,
          dashboardLayout, selectedIds, attrs, spc, sSource, sEmbeddable, sIds, sPrev, upc, uRest,
          beforeRearrange,
          viewMode, pointerDown, pointerAt, downShift, listening, gestureStart,
          dragStateRef, selectionDrag, previewSelectedPanelIds,
          justDidSelectionDragRef, pendingClick,
          copiedPanelIds, keyEvent, dispatched, contextMenu, hasSingle, hasBatch,
          dpc, dRest, dOrigin, effectiveIds, calls, handlerResult,
          lensAttributes, bpc, bCall, bOptions, bResult, updateCalls>>

(***************************************************************************)
(* Bounds                                                                  *)
(***************************************************************************)
\* reversal actions handed to pushUndo in one behaviour of SpecUndo
MaxPush == 52
\* runUndo calls that may be followed by a further pushUndo in SpecUndo
MaxUndoBeforePush == 1
\* popped reversal actions that may be unsettled at the same time
MaxPending == 2
\* panels of a generated layout in SpecLayout
MaxPanels == 6
\* pushUndo calls in one behaviour of SpecDash
MaxDashPushes == 1
\* panels of a wide layout in SpecReflow
MaxWide == 50

(***************************************************************************)
(* Undo manager (undo_manager.ts)                                          *)
(***************************************************************************)
MAX_UNDO_STACK == 50

\* pushUndo, the stack after `if (stack.length >= MAX_UNDO_STACK) stack.shift();
\* stack.push(fn)`
StackAfterPushOffByOne(s, fn) ==
    Append(IF Len(s) > MAX_UNDO_STACK THEN Tail(s) ELSE s, fn)

StackAfterPush(s, fn) ==
    Append(IF Len(s) >= MAX_UNDO_STACK THEN Tail(s) ELSE s, fn)

\* runUndo, `const fn = stack.pop()`: the entry taken and the stack left
PoppedFnOldest(s) == s[1]

PoppedFn(s) == s[Len(s)]

StackAfterPopKeepsEntry(s) == s

StackAfterPop(s) == SubSeq(s, 1, Len(s) - 1)

\* runUndo, the finally block: canUndo$.next(stack.length > 0)
CanUndoAfterSettleStale(s) == TRUE

CanUndoAfterSettle(s) == Len(s) > 0

pushUndoKeepsCanUndo(fn) ==
    /\ stack' = StackAfterPush(stack, fn)
    /\ UNCHANGED canUndo

\* pushUndo(fn)
pushUndo(fn) ==
    /\ stack' = StackAfterPush(stack, fn)
    /\ canUndo' = TRUE

\* runUndo() up to and including the call fn(): the pop, or the early return
\* on an empty stack.  canUndo$ is not touched before the reversal settles.
runUndoStart ==
    IF Len(stack) = 0
    THEN UNCHANGED <<stack, canUndo, pending, ran>> /\ lastOp' = "noop"
    ELSE /\ stack' = StackAfterPop(stack)
         /\ ran' = Append(ran, PoppedFn(stack))
         /\ pending' = pending + 1
         /\ lastOp' = "undo"
         /\ UNCHANGED canUndo

runUndoSettleDrainsStack(outcome) ==
    /\ pending > 0
    /\ pending' = pending - 1
    /\ stack' = <<>>
    /\ canUndo' = FALSE
    /\ lastOp' = outcome
    /\ UNCHANGED ran

\* runUndo() after `await fn()`: the reversal resolved or raised; finally
runUndoSettle(outcome) ==
    /\ pending > 0
    /\ pending' = pending - 1
    /\ canUndo' = CanUndoAfterSettle(stack)
    /\ lastOp' = outcome
    /\ UNCHANGED <<stack, ran>>

(***************************************************************************)
(* Layout model (DashboardLayout) and applySelectedPanelsLayout            *)
(***************************************************************************)
GRID_COLUMN_COUNT == 48
PRETTIFY_PANEL_WIDTH == 16
PRETTIFY_PANEL_HEIGHT == 10
PRETTIFY_PANELS_PER_ROW == 3

\* grid.sectionId of a panel of the root section
NoSection == "undefined"

Modes == {"header", "grid", "side"}

NoEntries == [k \in {} |-> k]

EmptyLayout == [panels |-> NoEntries, sections |-> NoEntries, pinnedPanels |-> NoEntries]

Range(s) == {s[i] : i \in 1..Len(s)}

\* sortPanelIdsByPosition: `panels[a]?.grid ?? { x: 0, y: 0 }`
GridOrOrigin(panels, id) ==
    IF id \in DOMAIN panels THEN panels[id].grid ELSE [x |-> 0, y |-> 0]

\* the comparator of sortPanelIdsByPosition: by y, then by x
ComparePosition(panels, a, b) ==
    LET ga == GridOrOrigin(panels, a)
        gb == GridOrOrigin(panels, b)
    IN  IF ga.y # gb.y THEN ga.y - gb.y ELSE ga.x - gb.x

sortPanelIdsUnsorted(panelIds, panels) == panelIds

\* [...panelIds].sort(comparator): Array.prototype.sort is stable, so ids that
\* compare equal keep the order they have in panelIds
RECURSIVE sortPanelIdsByPosition(_, _)
sortPanelIdsByPosition(panelIds, panels) ==
    IF Len(panelIds) = 0
    THEN <<>>
    ELSE LET n == Len(panelIds)
             sorted == sortPanelIdsByPosition(SubSeq(panelIds, 1, n - 1), panels)
             last == panelIds[n]
             k == Cardinality({i \in 1..Len(sorted) :
                                  ComparePosition(panels, sorted[i], last) <= 0})
         IN  SubSeq(sorted, 1, k) \o <<last>> \o SubSeq(sorted, k + 1, Len(sorted))

PresentPanelIdsUnfiltered(selectedPanelIds, panels) == selectedPanelIds

\* [...selectedPanelIds].filter((id) => layout.panels[id])
PresentPanelIds(selectedPanelIds, panels) ==
    SelectSeq(selectedPanelIds, LAMBDA id : id \in DOMAIN panels)

\* the ids applySelectedPanelsLayout rearranges, in the order it places them
PlacedPanelIds(layout, selectedPanelIds) ==
    sortPanelIdsByPosition(PresentPanelIds(selectedPanelIds, layout.panels), layout.panels)

\* mode 'header', the top panel
HeaderTopGrid == [x |-> 0, y |-> 0, w |-> GRID_COLUMN_COUNT, h |-> 5]

HeaderRestGridEqualWidths(i, n) ==
    LET w == IF n > 0 THEN GRID_COLUMN_COUNT \div n ELSE GRID_COLUMN_COUNT
    IN  [x |-> i * w, y |-> 5, w |-> w, h |-> 10]

\* mode 'header', rest[i] of n panels below the top panel
HeaderRestGrid(i, n) ==
    LET w == IF n > 0 THEN GRID_COLUMN_COUNT \div n ELSE GRID_COLUMN_COUNT
    IN  [x |-> i * w,
         y |-> 5,
         w |-> IF i = n - 1 THEN GRID_COLUMN_COUNT - (n - 1) * w ELSE w,
         h |-> 10]

GridModeGridFourPerRow(index) ==
    [x |-> (index % 4) * PRETTIFY_PANEL_WIDTH,
     y |-> (index \div 4) * PRETTIFY_PANEL_HEIGHT,
     w |-> PRETTIFY_PANEL_WIDTH,
     h |-> PRETTIFY_PANEL_HEIGHT]

\* mode 'grid', panelIds[index]
GridModeGrid(index) ==
    [x |-> (index % PRETTIFY_PANELS_PER_ROW) * PRETTIFY_PANEL_WIDTH,
     y |-> (index \div PRETTIFY_PANELS_PER_ROW) * PRETTIFY_PANEL_HEIGHT,
     w |-> PRETTIFY_PANEL_WIDTH,
     h |-> PRETTIFY_PANEL_HEIGHT]

\* mode 'side', the left panel
SideLeftGrid == [x |-> 0, y |-> 0, w |-> 24, h |-> 10]

SideRightGridUnstacked(i) == [x |-> 24, y |-> 0, w |-> 24, h |-> 5]

\* mode 'side', right[i]
SideRightGrid(i) == [x |-> 24, y |-> i * 5, w |-> 24, h |-> 5]

\* the rectangle given to panelIds[index] (index from 0) out of count panels
ModeGrid(mode, index, count) ==
    IF mode = "header"
    THEN IF index = 0 THEN HeaderTopGrid ELSE HeaderRestGrid(index - 1, count - 1)
    ELSE IF mode = "grid"
    THEN GridModeGrid(index)
    ELSE IF index = 0 THEN SideLeftGrid ELSE SideRightGrid(index - 1)

PlacedGridKeepsSection(oldGrid, rect, targetSectionId) ==
    [oldGrid EXCEPT !.x = rect.x, !.y = rect.y, !.w = rect.w, !.h = rect.h]

\* `{ ...layout.panels[id].grid, x, y, w, h, sectionId: targetSectionId }`
PlacedGrid(oldGrid, rect, targetSectionId) ==
    [oldGrid EXCEPT !.x = rect.x, !.y = rect.y, !.w = rect.w, !.h = rect.h,
                    !.sectionId = targetSectionId]

\* applySelectedPanelsLayout raises a TypeError when it reads
\* layout.panels[id].grid for an id that is no key of layout.panels
applySelectedPanelsLayoutRaises(layout, selectedPanelIds, mode) ==
    LET panelIds == PlacedPanelIds(layout, selectedPanelIds)
    IN  \E i \in 1..Len(panelIds) : panelIds[i] \notin DOMAIN layout.panels

applySelectedPanelsLayoutDropsPinned(layout, selectedPanelIds, mode) ==
    LET panelIds == PlacedPanelIds(layout, selectedPanelIds)
        IndexOf(id) == (CHOOSE i \in 1..Len(panelIds) : panelIds[i] = id) - 1
    IN  [panels |->
            [id \in DOMAIN layout.panels |->
                IF id \in Range(panelIds)
                THEN [layout.panels[id] EXCEPT !.grid =
                         PlacedGrid(layout.panels[id].grid,
                                    ModeGrid(mode, IndexOf(id), Len(panelIds)),
                                    layout.panels[panelIds[1]].grid.sectionId)]
                ELSE layout.panels[id]],
         sections |-> layout.sections,
         pinnedPanels |-> NoEntries]

\* applySelectedPanelsLayout(layout, selectedPanelIds, mode), when it returns
applySelectedPanelsLayout(layout, selectedPanelIds, mode) ==
    LET panelIds == PlacedPanelIds(layout, selectedPanelIds)
    IN  IF Len(panelIds) = 0
        THEN layout
        ELSE LET targetSectionId == layout.panels[panelIds[1]].grid.sectionId
                 IndexOf(id) == (CHOOSE i \in 1..Len(panelIds) : panelIds[i] = id) - 1
                 newPanels ==
                     [id \in DOMAIN layout.panels |->
                         IF id \in Range(panelIds)
                         THEN [layout.panels[id] EXCEPT !.grid =
                                  PlacedGrid(layout.panels[id].grid,
                                             ModeGrid(mode, IndexOf(id), Len(panelIds)),
                                             targetSectionId)]
                         ELSE layout.panels[id]]
             IN  [layout EXCEPT !.panels = newPanels]

(***************************************************************************)
(* SpecUndo: the undo manager driven by arbitrary callers                  *)
(***************************************************************************)
UndoManagerInit ==
    /\ stack = <<>>
    /\ canUndo = FALSE
    /\ pending = 0
    /\ ran = <<>>
    /\ nextId = 1
    /\ lastOp = "init"

LayoutCallIdle ==
    /\ inLayout = EmptyLayout
    /\ inSelected = <<>>
    /\ inMode = "none"
    /\ outLayout = EmptyLayout
    /\ outRaised = FALSE
    /\ lpc = "idle"
    /\ gridLayout = NoEntries
    /\ outAgain = EmptyLayout

DashboardIdle ==
    /\ dashboardLayout = EmptyLayout
    /\ selectedIds = <<>>
    /\ attrs = NoEntries
    /\ spc = "idle"
    /\ sSource = <<>>
    /\ sEmbeddable = "none"
    /\ sIds = <<>>
    /\ sPrev = <<>>
    /\ upc = "idle"
    /\ uRest = <<>>
    /\ beforeRearrange = [before |-> EmptyLayout, after |-> EmptyLayout]

\* DashboardGrid as mounted: no mouse button held, no gesture, no rectangle
GestureIdle ==
    /\ pointerDown = FALSE
    /\ pointerAt = [x |-> 0, y |-> 0]
    /\ downShift = FALSE
    /\ listening = FALSE
    /\ gestureStart = [x |-> 0, y |-> 0]
    /\ dragStateRef = <<>>
    /\ selectionDrag = <<>>
    /\ previewSelectedPanelIds = <<>>
    /\ justDidSelectionDragRef = FALSE
    /\ pendingClick = "none"

\* the grid controller in edit mode
GridIdle ==
    /\ viewMode = "edit"
    /\ GestureIdle

\* no keydown event yet
NoKeyEvent ==
    [key |-> "none", metaKey |-> FALSE, ctrlKey |-> FALSE, shiftKey |-> FALSE,
     focus |-> "body"]

\* nothing copied, no key pressed, no context menu, no Duplicate or Remove run
MenuIdle ==
    /\ copiedPanelIds = <<>>
    /\ keyEvent = NoKeyEvent
    /\ dispatched = "none"
    /\ contextMenu = <<>>
    /\ dpc = "idle"
    /\ dRest = <<>>
    /\ dOrigin = "none"
    /\ effectiveIds = <<>>
    /\ calls = <<>>
    /\ handlerResult = "none"

\* a Lens embeddable without attributes state and no breakdown-field call made
LensIdle ==
    /\ lensAttributes = [ref |-> 0, state |-> <<>>, references |-> <<>>]
    /\ bpc = "idle"
    /\ bCall = <<>>
    /\ bOptions = <<>>
    /\ bResult = <<>>
    /\ updateCalls = <<>>

\* the dashboard API with the per-panel methods and without the batch ones
ApiIdle ==
    /\ hasSingle = TRUE
    /\ hasBatch = FALSE

InitUndo ==
    /\ UndoManagerInit
    /\ LayoutCallIdle
    /\ DashboardIdle
    /\ GridIdle
    /\ MenuIdle
    /\ LensIdle
    /\ ApiIdle

PushUndoCall ==
    /\ nextId <= MaxPush
    /\ Len(ran) <= MaxUndoBeforePush
    /\ pushUndo(nextId)
    /\ nextId' = nextId + 1
    /\ lastOp' = "push"
    /\ UNCHANGED <<pending, ran>>
    /\ UNCHANGED layoutVars
    /\ UNCHANGED gridVars
    /\ UNCHANGED menuVars
    /\ UNCHANGED lensVars
    /\ UNCHANGED dashVars

RunUndoCall ==
    /\ pending < MaxPending \/ Len(stack) = 0
    /\ runUndoStart
    /\ UNCHANGED nextId
    /\ UNCHANGED layoutVars
    /\ UNCHANGED gridVars
    /\ UNCHANGED menuVars
    /\ UNCHANGED lensVars
    /\ UNCHANGED dashVars

ReversalResolves ==
    /\ runUndoSettle("resolve")
    /\ UNCHANGED nextId
    /\ UNCHANGED layoutVars
    /\ UNCHANGED gridVars
    /\ UNCHANGED menuVars
    /\ UNCHANGED lensVars
    /\ UNCHANGED dashVars

ReversalRaises ==
    /\ runUndoSettle("raise")
    /\ UNCHANGED nextId
    /\ UNCHANGED layoutVars
    /\ UNCHANGED gridVars
    /\ UNCHANGED menuVars
    /\ UNCHANGED lensVars
    /\ UNCHANGED dashVars

NextUndo ==
    \/ PushUndoCall
    \/ RunUndoCall
    \/ ReversalResolves
    \/ ReversalRaises

SpecUndo == InitUndo /\ [][NextUndo]_vars

(***************************************************************************)
(* Undo manager: properties                                                *)
(***************************************************************************)
\* the steps of SpecUndo, told apart by the branch they record
IsPushStep == lastOp' = "push" /\ nextId' = nextId + 1
IsUndoStep == lastOp' = "undo" /\ Len(ran') = Len(ran) + 1
IsNoopStep == lastOp' = "noop"
IsRaiseStep == lastOp' = "raise" /\ pending' = pending - 1

\* C1: after any sequence of pushUndo and runUndo calls, also with reversal
\* actions still pending, the undo stack holds at most 50 entries.
C1_StackAtMost50 == Len(stack) <= 50

\* a push on a full stack has evicted an entry while a reversal was pending
C1_Witness ==
    /\ Len(stack) = 50
    /\ lastOp = "push"
    /\ pending > 0
    /\ Len(stack) + Len(ran) < nextId - 1

\* C2 (steps): a push on a full stack drops the oldest entry and appends the
\* new one; a runUndo starts the most recently pushed entry still on the
\* stack; a runUndo on the empty stack runs nothing and changes neither the
\* stack nor canUndo.
C2_Step ==
    /\ IsPushStep /\ Len(stack) = 50 =>
            stack' = Append(Tail(stack), nextId)
    /\ IsPushStep /\ Len(stack) < 50 =>
            stack' = Append(stack, nextId)
    /\ IsUndoStep =>
            /\ ran'[Len(ran')] \in Range(stack)
            /\ \A e \in Range(stack) : e <= ran'[Len(ran')]
            /\ Range(stack') = Range(stack) \ {ran'[Len(ran')]}
    /\ IsNoopStep =>
            /\ stack = <<>>
            /\ UNCHANGED <<stack, canUndo, ran, pending>>

\* C2 (scenario): after exactly 51 pushes with no undo in between (the first
\* reversal started is entry 51), the runUndo calls start entries
\* 51, 50, ..., 2 in that order, at most 50 of them, and never entry 1.
C2_Scenario ==
    (nextId = 52 /\ Len(ran) > 0 /\ ran[1] = 51) =>
        /\ Len(ran) <= 50
        /\ \A i \in 1..Len(ran) : ran[i] = 52 - i
        /\ 1 \notin Range(ran) \cup Range(stack)

\* C2: FIFO eviction on overflow, LIFO consumption on undo, no-op on empty.
C2_EvictOldestRunNewest == [][C2_Step /\ C2_Scenario']_vars

\* 51 pushes, then 50 undos that ran 51 down to 2, then a runUndo on the
\* empty stack
C2_Witness ==
    /\ nextId = 52
    /\ Len(ran) = 50
    /\ ran[1] = 51
    /\ ran[50] = 2
    /\ stack = <<>>
    /\ lastOp = "noop"

\* C3 as stated: in every state between operations, also while a popped
\* reversal is pending, canUndo is true exactly when the stack is non-empty.
C3_CanUndoAlwaysInSync == canUndo = (Len(stack) > 0)

\* C3 as amended: canUndo is recomputed when a popped reversal settles, not
\* at the pop.  With no reversal pending canUndo is true exactly when the
\* stack is non-empty; while one is pending canUndo may still be true on
\* an empty stack, but it is never false on a non-empty one.
C3_CanUndoInSyncWhenSettled ==
    /\ pending = 0 => canUndo = (Len(stack) > 0)
    /\ ~canUndo => Len(stack) = 0

\* the last entry was popped, its reversal raised, and canUndo went false
C3_Witness ==
    /\ pending = 0
    /\ lastOp = "raise"
    /\ Len(ran) > 0
    /\ Len(stack) = 0
    /\ ~canUndo

\* C4: runUndo removes exactly the entry it starts, before the reversal
\* settles; when the reversal raises, the stack is left as it is (nothing
\* is re-queued) and canUndo becomes (stack non-empty); an entry that was
\* started is never started again and never pushed back.
C4_Step ==
    /\ IsUndoStep =>
            /\ Len(stack') = Len(stack) - 1
            /\ ran'[Len(ran')] \notin Range(stack')
            /\ ran'[Len(ran')] \notin Range(ran)
    /\ IsPushStep =>
            stack'[Len(stack')] \notin Range(ran')
    /\ IsRaiseStep =>
            /\ stack' = stack
            /\ ran' = ran
            /\ canUndo' = (Len(stack') > 0)

C4_RaisedReversalStaysPopped == [][C4_Step]_vars

\* a reversal raised while entries remain, and canUndo stayed true
C4_Witness ==
    /\ lastOp = "raise"
    /\ pending = 0
    /\ Len(ran) >= 2
    /\ Len(stack) > 0
    /\ canUndo

(***************************************************************************)
(* SpecLayout: applySelectedPanelsLayout applied to bounded inputs         *)
(***************************************************************************)
PanelNames == <<"p1", "p2", "p3", "p4", "p5", "p6", "p7", "p8", "p9">>

GeneratedPanelIds == {PanelNames[i] : i \in 1..MaxPanels}

\* an id that is a key of no layout
GhostId == "ghost"

NameIndex(id) ==
    IF id = GhostId THEN 0 ELSE CHOOSE i \in 1..Len(PanelNames) : PanelNames[i] = id

\* the 16 x 10 cells of the grid in reading order; a panel of a generated
\* layout fills part of one cell
CellGrid(cell, i, sectionId) ==
    [x |-> (cell % 3) * 16,
     y |-> (cell \div 3) * 10,
     w |-> 16 - 4 * (i % 2),
     h |-> 10 - (i % 3),
     sectionId |-> sectionId]

\* root panels lie in reverse reading order of their names
HomeCell(i) == MaxPanels - i

\* a layout of MaxPanels panels: the panels named in inSection lie in section
\* "s1" (each on the cell that the next panel has in the root section, so
\* panels of different sections can have equal coordinates), the others in
\* the root section; no two panels of one section overlap
GeneratedLayout(inSection) ==
    [panels |->
        [id \in GeneratedPanelIds |->
            LET i == NameIndex(id)
            IN  [type |-> IF i % 2 = 0 THEN "lens" ELSE "markdown",
                 grid |-> IF id \in inSection
                          THEN CellGrid(HomeCell((i % MaxPanels) + 1), i, "s1")
                          ELSE CellGrid(HomeCell(i), i, NoSection)]],
     sections |-> [sec \in {"s1"} |->
                      [collapsed |-> FALSE, title |-> "Section 1", grid |-> [y |-> 40]]],
     pinnedPanels |-> [id \in {"ctrl1"} |-> [type |-> "optionsListControl"]]]

\* the layout of the documented scenario
ScenarioLayout ==
    [panels |->
        [id \in {"p1", "p2", "p3"} |->
            [type |-> "lens",
             grid |-> IF id = "p1"
                      THEN [x |-> 0, y |-> 0, w |-> 16, h |-> 10, sectionId |-> NoSection]
                      ELSE IF id = "p2"
                      THEN [x |-> 16, y |-> 0, w |-> 16, h |-> 10, sectionId |-> NoSection]
                      ELSE [x |-> 0, y |-> 10, w |-> 16, h |-> 10, sectionId |-> NoSection]]],
     sections |-> NoEntries,
     pinnedPanels |-> NoEntries]

InputLayouts ==
    {GeneratedLayout(inSection) : inSection \in SUBSET GeneratedPanelIds}
        \cup {ScenarioLayout}

\* the ids of a set as a Set iterates them when they were added in ascending
\* (or, reversed, descending) order of their names
InsertionOrder(ids, reversed) ==
    LET n == Cardinality(ids)
        Ascending == [k \in 1..n |->
                         CHOOSE id \in ids :
                             Cardinality({o \in ids : NameIndex(o) < NameIndex(id)}) = k - 1]
    IN  IF reversed THEN [k \in 1..n |-> Ascending[n + 1 - k]] ELSE Ascending

InputSelections ==
    {InsertionOrder(ids, reversed) :
        ids \in SUBSET (GeneratedPanelIds \cup {GhostId}), reversed \in BOOLEAN}

InitLayout ==
    /\ UndoManagerInit
    /\ DashboardIdle
    /\ GridIdle
    /\ MenuIdle
    /\ LensIdle
    /\ ApiIdle
    /\ inLayout \in InputLayouts
    /\ inSelected \in InputSelections
    /\ inMode = "none"
    /\ outLayout = inLayout
    /\ outRaised = FALSE
    /\ lpc = "input"
    /\ gridLayout = NoEntries
    /\ outAgain = EmptyLayout

\* one call applySelectedPanelsLayout(inLayout, new Set(inSelected), mode)
ApplyCall(mode) ==
    /\ lpc = "input"
    /\ lpc' = "done"
    /\ inMode' = mode
    /\ IF applySelectedPanelsLayoutRaises(inLayout, inSelected, mode)
       THEN outRaised' = TRUE /\ UNCHANGED outLayout
       ELSE /\ outRaised' = FALSE
            /\ outLayout' = applySelectedPanelsLayout(inLayout, inSelected, mode)
    /\ UNCHANGED <<inLayout, inSelected, gridLayout, outAgain>>
    /\ UNCHANGED undoVars
    /\ UNCHANGED dashVars
    /\ UNCHANGED gridVars
    /\ UNCHANGED menuVars
    /\ UNCHANGED lensVars

ApplyHeader == ApplyCall("header")

ApplyGrid == ApplyCall("grid")

ApplySide == ApplyCall("side")

NextLayout ==
    \/ ApplyHeader
    \/ ApplyGrid
    \/ ApplySide

SpecLayout == InitLayout /\ [][NextLayout]_vars

(***************************************************************************)
(* applySelectedPanelsLayout: properties                                   *)
(***************************************************************************)
\* the selected ids that are keys of the input layout
SelectedPresent == Range(inSelected) \cap DOMAIN inLayout.panels

InGrid(id) == inLayout.panels[id].grid

OutGrid(id) == outLayout.panels[id].grid

\* p is at or before q in ascending (y, x) order of the input layout
AtOrBefore(p, q) ==
    \/ InGrid(p).y < InGrid(q).y
    \/ InGrid(p).y = InGrid(q).y /\ InGrid(p).x <= InGrid(q).x

Rect(g) == <<g.x, g.y, g.w, g.h>>

RECURSIVE SumOfWidths(_)
SumOfWidths(ids) ==
    IF ids = {}
    THEN 0
    ELSE LET id == CHOOSE id \in ids : TRUE
         IN  OutGrid(id).w + SumOfWidths(ids \ {id})

\* C7: applySelectedPanelsLayout never raises, adds no entry for a selected id
\* that is no key of layout.panels, and returns the input layout unchanged
\* when no selected id is a key of it (the empty selection included), in
\* every mode.
C7_UnknownIdsDropped ==
    lpc = "done" =>
        /\ ~outRaised
        /\ DOMAIN outLayout.panels = DOMAIN inLayout.panels
        /\ SelectedPresent = {} => outLayout = inLayout
        /\ \A id \in DOMAIN inLayout.panels \ Range(inSelected) :
               outLayout.panels[id] = inLayout.panels[id]

\* a call whose only selected id is unknown returned the input layout
C7_Witness ==
    /\ lpc = "done"
    /\ inSelected = <<GhostId>>
    /\ inLayout.panels # NoEntries
    /\ outLayout = inLayout

\* C8: in mode 'grid' the selected panels present in the layout are numbered
\* 0..n-1 in ascending (y, x) order of the input layout and panel i gets
\* x = (i mod 3) * 16, y = floor(i / 3) * 10, w = 16, h = 10; no two of them
\* get the same (x, y).
C8_GridIndex(id) == (OutGrid(id).y \div 10) * 3 + (OutGrid(id).x \div 16)

C8_GridMode ==
    (lpc = "done" /\ inMode = "grid") =>
        /\ \A id \in SelectedPresent :
               LET i == C8_GridIndex(id)
               IN  /\ i \in 0..(Cardinality(SelectedPresent) - 1)
                   /\ Rect(OutGrid(id)) = <<(i % 3) * 16, (i \div 3) * 10, 16, 10>>
        /\ \A p, q \in SelectedPresent :
               /\ p # q => <<OutGrid(p).x, OutGrid(p).y>> # <<OutGrid(q).x, OutGrid(q).y>>
               /\ C8_GridIndex(p) < C8_GridIndex(q) => AtOrBefore(p, q)

\* five panels, selected against their reading order with an unknown id
\* among them, were laid out in two rows
C8_Witness ==
    /\ lpc = "done"
    /\ inMode = "grid"
    /\ Cardinality(SelectedPresent) = 5
    /\ GhostId \in Range(inSelected)
    /\ \E id \in SelectedPresent : Rect(OutGrid(id)) = <<16, 10, 16, 10>>

\* C9: in mode 'header' the first panel in ascending (y, x) order gets
\* (0, 0, 48, 5); the N >= 1 others get y = 5, h = 10 and, numbered 0..N-1 in
\* that order, x = i * floor(48 / N) and width floor(48 / N), except the last,
\* whose width is 48 - (N - 1) * floor(48 / N); their widths sum to 48.
C9_HeaderMode ==
    (lpc = "done" /\ inMode = "header" /\ SelectedPresent # {}) =>
        \E top \in SelectedPresent :
            LET rest == SelectedPresent \ {top}
                N == Cardinality(rest)
                W == IF N > 0 THEN 48 \div N ELSE 48
                Index(id) == OutGrid(id).x \div W
            IN  /\ Rect(OutGrid(top)) = <<0, 0, 48, 5>>
                /\ \A id \in rest : AtOrBefore(top, id)
                /\ \A id \in rest :
                       /\ Index(id) \in 0..(N - 1)
                       /\ Rect(OutGrid(id)) =
                              <<Index(id) * W, 5,
                                IF Index(id) = N - 1 THEN 48 - (N - 1) * W ELSE W, 10>>
                /\ \A p, q \in rest :
                       /\ p # q => Index(p) # Index(q)
                       /\ Index(p) < Index(q) => AtOrBefore(p, q)
                /\ N >= 1 => SumOfWidths(rest) = 48

\* six panels: the five below the top panel are 9 wide, the last one 12
C9_Witness ==
    /\ lpc = "done"
    /\ inMode = "header"
    /\ Cardinality(SelectedPresent) = 6
    /\ \E id \in SelectedPresent : Rect(OutGrid(id)) = <<36, 5, 12, 10>>
    /\ \E id \in SelectedPresent : Rect(OutGrid(id)) = <<27, 5, 9, 10>>

\* C10: in mode 'side' the first panel in ascending (y, x) order gets
\* (0, 0, 24, 10) and the others, numbered from 0 in that order, get
\* (24, i * 5, 24, 5); in the documented scenario (p1, p2, p3 with selection
\* {p3, p1}) p1 becomes (0, 0, 24, 10), p3 (24, 0, 24, 5), p2 is unchanged.
C10_SideMode ==
    /\ (lpc = "done" /\ inMode = "side" /\ SelectedPresent # {}) =>
          \E left \in SelectedPresent :
              LET right == SelectedPresent \ {left}
                  Index(id) == OutGrid(id).y \div 5
              IN  /\ Rect(OutGrid(left)) = <<0, 0, 24, 10>>
                  /\ \A id \in right : AtOrBefore(left, id)
                  /\ \A id \in right :
                         /\ Index(id) \in 0..(Cardinality(right) - 1)
                         /\ Rect(OutGrid(id)) = <<24, Index(id) * 5, 24, 5>>
                  /\ \A p, q \in right :
                         /\ p # q => Index(p) # Index(q)
                         /\ Index(p) < Index(q) => AtOrBefore(p, q)
    /\ (lpc = "done" /\ inMode = "side" /\ inLayout = ScenarioLayout
            /\ inSelected = <<"p3", "p1">>) =>
          /\ Rect(OutGrid("p1")) = <<0, 0, 24, 10>>
          /\ Rect(OutGrid("p3")) = <<24, 0, 24, 5>>
          /\ outLayout.panels["p2"] = inLayout.panels["p2"]

\* the documented scenario was run
C10_Witness ==
    /\ lpc = "done"
    /\ inMode = "side"
    /\ inLayout = ScenarioLayout
    /\ inSelected = <<"p3", "p1">>
    /\ Rect(OutGrid("p3")) = <<24, 0, 24, 5>>

(***************************************************************************)
(* prettifyDashboard and onLayoutChange                                    *)
(***************************************************************************)
\* the ids of the panels of a wide layout
WideNames == [i \in 1..MaxWide |-> "w" \o ToString(i)]

\* every panel id, in the order in which panels are added to a layout
AllPanelNames == PanelNames \o WideNames

\* Object.keys(panels): the keys in the order in which they were added
ObjectKeys(panels) == SelectSeq(AllPanelNames, LAMBDA id : id \in DOMAIN panels)

Reverse(s) == [k \in 1..Len(s) |-> s[Len(s) + 1 - k]]

\* a grid object with the keys x, y, w, h and sectionId; a grid object
\* without a sectionId key reads as sectionId undefined
WithSectionId(grid, sectionId) ==
    [x |-> grid.x, y |-> grid.y, w |-> grid.w, h |-> grid.h, sectionId |-> sectionId]

\* prettifyDashboard: Object.keys(layout.panels).sort(by y, then by x)
PrettifyPanelIds(layout) ==
    sortPanelIdsByPosition(ObjectKeys(layout.panels), layout.panels)

\* prettifyDashboard: the grid object written for panelIds[index]
PrettifyGrid(index) ==
    [x |-> (index % PRETTIFY_PANELS_PER_ROW) * PRETTIFY_PANEL_WIDTH,
     y |-> (index \div PRETTIFY_PANELS_PER_ROW) * PRETTIFY_PANEL_HEIGHT,
     w |-> PRETTIFY_PANEL_WIDTH,
     h |-> PRETTIFY_PANEL_HEIGHT]

\* prettifyDashboard: the layout handed to layout$.next.  The new grid object
\* holds x, y, w and h only: the old grid is not spread into it.
prettifyDashboard(layout) ==
    LET panelIds == PrettifyPanelIds(layout)
        IndexOf(id) == (CHOOSE i \in 1..Len(panelIds) : panelIds[i] = id) - 1
    IN  [layout EXCEPT !.panels =
            [id \in DOMAIN layout.panels |->
                [layout.panels[id] EXCEPT !.grid =
                    WithSectionId(PrettifyGrid(IndexOf(id)), NoSection)]]]

convertGridPanelSwapsAxes(panel) ==
    [y |-> panel.column, x |-> panel.row, w |-> panel.width, h |-> panel.height]

convertGridPanelToDashboardGridData(panel) ==
    [y |-> panel.row, x |-> panel.column, w |-> panel.width, h |-> panel.height]

\* `{ ...currLayout.panels[id], grid }`: spreading undefined adds no key
PanelWithGrid(currLayout, id, grid) ==
    IF id \in DOMAIN currLayout.panels
    THEN [currLayout.panels[id] EXCEPT !.grid = grid]
    ELSE [grid |-> grid]

SectionWidgets(newLayout) ==
    {k \in DOMAIN newLayout : newLayout[k].type = "section"}

PanelWidgets(newLayout) ==
    {k \in DOMAIN newLayout : newLayout[k].type # "section"}

updatedLayoutOfKeepsSections(currLayout, newLayout) ==
    LET secs == SectionWidgets(newLayout)
        Nested(k) == {newLayout[k].panels[n] : n \in DOMAIN newLayout[k].panels}
        nestedIds == UNION {{panel.id : panel \in Nested(k)} : k \in secs}
        HomeOf(id) == CHOOSE k \in secs : \E panel \in Nested(k) : panel.id = id
        NestedPanel(id) == CHOOSE panel \in Nested(HomeOf(id)) : panel.id = id
    IN  [sections |-> currLayout.sections,
         panels |->
            [id \in nestedIds |->
                PanelWithGrid(currLayout, id,
                    WithSectionId(convertGridPanelToDashboardGridData(NestedPanel(id)),
                                  newLayout[HomeOf(id)].id))],
         pinnedPanels |-> currLayout.pinnedPanels]

\* onLayoutChange: updatedLayout, built from the widgets of newLayout (each
\* panel id occurs in one widget)
updatedLayoutOf(currLayout, newLayout) ==
    LET secs == SectionWidgets(newLayout)
        roots == PanelWidgets(newLayout)
        Nested(k) == {newLayout[k].panels[n] : n \in DOMAIN newLayout[k].panels}
        rootIds == {newLayout[k].id : k \in roots}
        nestedIds == UNION {{panel.id : panel \in Nested(k)} : k \in secs}
        RootWidget(id) == newLayout[CHOOSE k \in roots : newLayout[k].id = id]
        HomeOf(id) == CHOOSE k \in secs : \E panel \in Nested(k) : panel.id = id
        NestedPanel(id) == CHOOSE panel \in Nested(HomeOf(id)) : panel.id = id
    IN  [sections |->
            [sid \in {newLayout[k].id : k \in secs} |->
                LET widget == newLayout[CHOOSE k \in secs : newLayout[k].id = sid]
                IN  [collapsed |-> widget.isCollapsed,
                     title |-> widget.title,
                     grid |-> [y |-> widget.row]]],
         panels |->
            [id \in rootIds \cup nestedIds |->
                IF id \in nestedIds
                THEN PanelWithGrid(currLayout, id,
                         WithSectionId(convertGridPanelToDashboardGridData(NestedPanel(id)),
                                       newLayout[HomeOf(id)].id))
                ELSE PanelWithGrid(currLayout, id,
                         WithSectionId(convertGridPanelToDashboardGridData(RootWidget(id)),
                                       NoSection))],
         pinnedPanels |-> currLayout.pinnedPanels]

\* onLayoutChange(newLayout): the value of layout$ when the handler returns
onLayoutChange(mode, currLayout, newLayout) ==
    IF mode # "edit"
    THEN currLayout
    ELSE IF updatedLayoutOf(currLayout, newLayout) = currLayout
    THEN currLayout
    ELSE updatedLayoutOf(currLayout, newLayout)

(***************************************************************************)
(* SpecReflow: bulk rearrange (once and repeated), prettify and the        *)
(* conversion of an external grid layout, on small and on wide layouts     *)
(***************************************************************************)
ViewModes == {"edit", "view"}

\* a layout of MaxWide one-column panels in reading order, more than the grid
\* has columns; its first panel lies in section "s1" or in the root section
WideLayout(firstInSection) ==
    [panels |->
        [id \in Range(WideNames) |->
            LET i == CHOOSE k \in 1..MaxWide : WideNames[k] = id
            IN  [type |-> "lens",
                 grid |-> [x |-> (i - 1) % GRID_COLUMN_COUNT,
                           y |-> ((i - 1) \div GRID_COLUMN_COUNT) * 2,
                           w |-> 1,
                           h |-> 2,
                           sectionId |-> IF i = 1 /\ firstInSection
                                         THEN "s1" ELSE NoSection]]],
     sections |-> [sec \in {"s1"} |->
                      [collapsed |-> FALSE, title |-> "Section 1", grid |-> [y |-> 40]]],
     pinnedPanels |-> NoEntries]

ReflowLayouts ==
    InputLayouts \cup {WideLayout(firstInSection) : firstInSection \in BOOLEAN}

\* the selections tried on a layout, as sequences in insertion order: every
\* subset of a small layout's panels, the first k panels of a wide one, each
\* inserted in the order of the keys or against it
ReflowSelections(layout) ==
    LET keys == ObjectKeys(layout.panels)
        Ordered(ids, reversed) ==
            LET s == SelectSeq(keys, LAMBDA id : id \in ids)
            IN  IF reversed THEN Reverse(s) ELSE s
    IN  IF Len(keys) <= MaxPanels
        THEN {Ordered(ids, reversed) :
                 ids \in SUBSET DOMAIN layout.panels, reversed \in BOOLEAN}
        ELSE {Ordered({keys[i] : i \in 1..k}, reversed) :
                 k \in 0..Len(keys), reversed \in BOOLEAN}

\* the panels and sections the external grid may report
ExternalPanelIds == <<"p1", "p2", "w1">>

ExternalSectionIds == {"s1", "s2"}

\* the GridPanelData of the k-th external panel
ExternalPanel(k) ==
    [type |-> "panel", id |-> ExternalPanelIds[k],
     row |-> 3 * k, column |-> 12 * (k - 1), width |-> 12, height |-> 3]

\* a GridLayoutData: the section widgets secs, and each external panel either
\* absent ("none"), a top-level widget ("root") or nested in a section widget
ExternalLayout(secs, home) ==
    LET rootKs == {k \in DOMAIN home : home[k] = "root"}
    IN  [wid \in secs \cup {ExternalPanelIds[k] : k \in rootKs} |->
            IF wid \in secs
            THEN [type |-> "section", id |-> wid, isCollapsed |-> (wid = "s2"),
                  title |-> wid, row |-> IF wid = "s1" THEN 20 ELSE 30,
                  panels |-> [pid \in {ExternalPanelIds[k] : k \in {j \in DOMAIN home : home[j] = wid}} |->
                                 ExternalPanel(CHOOSE k \in DOMAIN home : ExternalPanelIds[k] = pid)]]
            ELSE ExternalPanel(CHOOSE k \in DOMAIN home : ExternalPanelIds[k] = wid)]

ExternalLayouts ==
    {ExternalLayout(secs, home) :
        secs \in SUBSET ExternalSectionIds,
        home \in [1..Len(ExternalPanelIds) -> {"none", "root"} \cup ExternalSectionIds]}

InitReflow ==
    /\ UndoManagerInit
    /\ DashboardIdle
    /\ GestureIdle
    /\ MenuIdle
    /\ LensIdle
    /\ ApiIdle
    /\ viewMode \in ViewModes
    /\ inLayout \in ReflowLayouts
    /\ inSelected = <<>>
    /\ inMode = "none"
    /\ outLayout = inLayout
    /\ outRaised = FALSE
    /\ lpc = "input"
    /\ gridLayout = NoEntries
    /\ outAgain = EmptyLayout

\* the context menu's layout sub-action (offered in edit mode only) applies
\* applySelectedPanelsLayout to the current layout and a selection
ReflowApply ==
    \E selected \in ReflowSelections(inLayout), mode \in Modes :
        /\ lpc = "input"
        /\ viewMode = "edit"
        /\ ~applySelectedPanelsLayoutRaises(inLayout, selected, mode)
        /\ lpc' = "applied"
        /\ inSelected' = selected
        /\ inMode' = mode
        /\ outLayout' = applySelectedPanelsLayout(inLayout, selected, mode)
        /\ UNCHANGED <<inLayout, outRaised, gridLayout, outAgain>>
        /\ UNCHANGED undoVars
        /\ UNCHANGED dashVars
        /\ UNCHANGED gridVars
        /\ UNCHANGED menuVars
        /\ UNCHANGED lensVars

\* the same sub-action chosen again, with the same selection, on the layout
\* the first call returned
ReflowApplyAgain ==
    /\ lpc = "applied"
    /\ lpc' = "reapplied"
    /\ outAgain' = applySelectedPanelsLayout(outLayout, inSelected, inMode)
    /\ UNCHANGED <<inLayout, inSelected, inMode, outLayout, outRaised, gridLayout>>
    /\ UNCHANGED undoVars
    /\ UNCHANGED dashVars
    /\ UNCHANGED gridVars
    /\ UNCHANGED menuVars
    /\ UNCHANGED lensVars

\* the top-nav item "prettify" (offered in edit mode only)
ReflowPrettify ==
    /\ lpc = "input"
    /\ viewMode = "edit"
    /\ lpc' = "prettified"
    /\ inMode' = "prettify"
    /\ outLayout' = prettifyDashboard(inLayout)
    /\ UNCHANGED <<inLayout, inSelected, outRaised, gridLayout, outAgain>>
    /\ UNCHANGED undoVars
    /\ UNCHANGED dashVars
    /\ UNCHANGED gridVars
    /\ UNCHANGED menuVars
    /\ UNCHANGED lensVars

\* the grid component reports a layout: onLayoutChange(newLayout)
ReflowLayoutChange ==
    \E newLayout \in ExternalLayouts :
        /\ lpc = "input"
        /\ lpc' = "converted"
        /\ inMode' = "layoutChange"
        /\ gridLayout' = newLayout
        /\ outLayout' = onLayoutChange(viewMode, inLayout, newLayout)
        /\ UNCHANGED <<inLayout, inSelected, outRaised, outAgain>>
        /\ UNCHANGED undoVars
        /\ UNCHANGED dashVars
        /\ UNCHANGED gridVars
        /\ UNCHANGED menuVars
        /\ UNCHANGED lensVars

\* the Layout Model as the rendering grid's layout description: one section
\* widget per entry of sections, holding the panels of that section, and one
\* top-level widget per panel of the root section
toGridLayout(layout) ==
    LET PanelWidget(id) ==
            LET g == layout.panels[id].grid
            IN  [type |-> "panel", id |-> id,
                 row |-> g.y, column |-> g.x, width |-> g.w, height |-> g.h]
        roots == {id \in DOMAIN layout.panels :
                     layout.panels[id].grid.sectionId = NoSection}
        Members(sid) == {id \in DOMAIN layout.panels :
                            layout.panels[id].grid.sectionId = sid}
    IN  [wid \in DOMAIN layout.sections \cup roots |->
            IF wid \in DOMAIN layout.sections
            THEN [type |-> "section", id |-> wid,
                  isCollapsed |-> layout.sections[wid].collapsed,
                  title |-> layout.sections[wid].title,
                  row |-> layout.sections[wid].grid.y,
                  panels |-> [pid \in Members(wid) |-> PanelWidget(pid)]]
            ELSE PanelWidget(wid)]

\* the rendering grid reports the layout it was given: onLayoutChange on the
\* grid layout of the current Layout Model
ReflowRoundTrip ==
    /\ lpc = "input"
    /\ lpc' = "roundtrip"
    /\ inMode' = "layoutChange"
    /\ gridLayout' = toGridLayout(inLayout)
    /\ outLayout' = onLayoutChange(viewMode, inLayout, toGridLayout(inLayout))
    /\ UNCHANGED <<inLayout, inSelected, outRaised, outAgain>>
    /\ UNCHANGED undoVars
    /\ UNCHANGED dashVars
    /\ UNCHANGED gridVars
    /\ UNCHANGED menuVars
    /\ UNCHANGED lensVars

NextReflow ==
    \/ ReflowApply
    \/ ReflowApplyAgain
    \/ ReflowPrettify
    \/ ReflowLayoutChange
    \/ ReflowRoundTrip

SpecReflow == InitReflow /\ [][NextReflow]_vars

(***************************************************************************)
(* Layout algorithms: properties                                           *)
(***************************************************************************)
\* grid coordinates are non-negative integers, w and h are positive
GridInvariant(layout) ==
    \A id \in DOMAIN layout.panels :
        LET g == layout.panels[id].grid
        IN  /\ g.x \in Nat /\ g.y \in Nat
            /\ g.w \in Nat /\ g.h \in Nat
            /\ g.w > 0 /\ g.h > 0

\* C11: when every panel of the input layout has non-negative integer x, y
\* and w > 0, h > 0, so has every panel of the layout returned by
\* applySelectedPanelsLayout (every mode, selections of any size, also of
\* more panels than the grid has columns) and by prettify.
C11_GridInvariantPreserved ==
    (lpc \in {"applied", "prettified"} /\ GridInvariant(inLayout)) =>
        GridInvariant(outLayout)

(***************************************************************************)
(* SpecDash: bulk rearrange, share color mapping and the undo shortcut     *)
(***************************************************************************)
\* the closure pushed by handleLayoutSubAction: layout$.next(snapshot)
LayoutUndoEntry(snapshot) ==
    [kind |-> "layout", snapshot |-> snapshot, previous |-> <<>>]

\* the closure pushed by ShareColorMappingAction.execute: it restores
\* previousAttributesByPanel
AttributesUndoEntry(previousAttributesByPanel) ==
    [kind |-> "attrs", snapshot |-> EmptyLayout, previous |-> previousAttributesByPanel]

SnapshotOfPanelsOnly(l) ==
    [panels |-> [id \in DOMAIN l.panels |-> l.panels[id]],
     sections |-> NoEntries,
     pinnedPanels |-> l.pinnedPanels]

\* handleLayoutSubAction: { ...layout, panels: <every panel and its grid copied> }
SnapshotOf(l) ==
    [panels |-> [id \in DOMAIN l.panels |->
                    [l.panels[id] EXCEPT !.grid = l.panels[id].grid]],
     sections |-> l.sections,
     pinnedPanels |-> l.pinnedPanels]

\* a panelId prop that is falsy: null, or the empty string
NoPanel == "null"

effectivePanelIdsClickedOnly(panelId, selected) ==
    IF panelId = NoPanel THEN <<>> ELSE <<panelId>>

\* PanelContextMenu: effectivePanelIds for the panel the menu was opened on
effectivePanelIds(panelId, selected) ==
    IF panelId = NoPanel THEN <<>>
    ELSE IF panelId \in Range(selected) THEN selected ELSE <<panelId>>

\* extractColorMappingFromAttributes; <<>> stands for undefined
extractColorMappingFromAttributes(attributes) ==
    [i \in 1..Len(attributes.layers) |->
        [palette |-> attributes.layers[i].palette,
         colorMapping |-> attributes.layers[i].colorMapping]]

\* applyColorMappingToAttributes
applyColorMappingToAttributes(attributes, sourceLayerConfigs) ==
    [attributes EXCEPT !.layers =
        [i \in 1..Len(attributes.layers) |->
            IF i <= Len(sourceLayerConfigs)
            THEN [attributes.layers[i] EXCEPT
                     !.palette = sourceLayerConfigs[i].palette,
                     !.colorMapping = sourceLayerConfigs[i].colorMapping]
            ELSE attributes.layers[i]]]

\* the dashboard SpecDash starts from: two Lens panels in the root section
\* and a markdown panel (no attributes API) in section s1
DashInitLayout ==
    [panels |->
        [id \in {"p1", "p2", "p3"} |->
            [type |-> IF id = "p3" THEN "markdown" ELSE "lens",
             grid |-> IF id = "p1"
                      THEN [x |-> 0, y |-> 0, w |-> 16, h |-> 10, sectionId |-> NoSection]
                      ELSE IF id = "p2"
                      THEN [x |-> 16, y |-> 0, w |-> 32, h |-> 10, sectionId |-> NoSection]
                      ELSE [x |-> 0, y |-> 0, w |-> 24, h |-> 8, sectionId |-> "s1"]]],
     sections |-> [sec \in {"s1"} |->
                      [collapsed |-> FALSE, title |-> "Section 1", grid |-> [y |-> 10]]],
     pinnedPanels |-> [id \in {"ctrl1"} |-> [type |-> "optionsListControl"]]]

DashInitAttrs ==
    [id \in {"p1", "p2"} |->
        IF id = "p1"
        THEN [title |-> "a", layers |-> <<[layerId |-> "l1", palette |-> "warm", colorMapping |-> "byTerm"],
                                          [layerId |-> "l2", palette |-> "warm", colorMapping |-> "byRange"]>>]
        ELSE [title |-> "b", layers |-> <<[layerId |-> "l1", palette |-> "cool", colorMapping |-> "gradient"]>>]]

InitDash ==
    /\ UndoManagerInit
    /\ LayoutCallIdle
    /\ GridIdle
    /\ MenuIdle
    /\ LensIdle
    /\ ApiIdle
    /\ dashboardLayout = DashInitLayout
    /\ selectedIds = <<>>
    /\ attrs = DashInitAttrs
    /\ spc = "idle"
    /\ sSource = <<>>
    /\ sEmbeddable = "none"
    /\ sIds = <<>>
    /\ sPrev = <<>>
    /\ upc = "idle"
    /\ uRest = <<>>
    /\ beforeRearrange = [before |-> EmptyLayout, after |-> EmptyLayout]

\* togglePanelSelection(id)
TogglePanelSelection(id) ==
    /\ selectedIds' = IF id \in Range(selectedIds)
                      THEN SelectSeq(selectedIds, LAMBDA o : o # id)
                      ELSE Append(selectedIds, id)
    /\ lastOp' = "select"
    /\ UNCHANGED <<stack, canUndo, pending, ran, nextId>>
    /\ UNCHANGED <<dashboardLayout, attrs, spc, sSource, sEmbeddable, sIds, sPrev, upc, uRest,
                   beforeRearrange>>
    /\ UNCHANGED layoutVars
    /\ UNCHANGED gridVars
    /\ UNCHANGED menuVars
    /\ UNCHANGED lensVars

\* handleLayoutSubAction(which), the context menu being open on panelId
handleLayoutSubAction(panelId, which) ==
    LET ids == effectivePanelIds(panelId, selectedIds)
        snapshot == SnapshotOf(dashboardLayout)
        nextLayout == applySelectedPanelsLayout(dashboardLayout, ids, which)
    IN  /\ nextId <= MaxDashPushes
        /\ pushUndo(LayoutUndoEntry(snapshot))
        /\ nextId' = nextId + 1
        /\ dashboardLayout' = nextLayout
        /\ beforeRearrange' = [before |-> dashboardLayout, after |-> nextLayout]
        /\ lastOp' = "rearrange"
        /\ UNCHANGED <<pending, ran>>
        /\ UNCHANGED <<selectedIds, attrs, spc, sSource, sEmbeddable, sIds, sPrev, upc, uRest>>
        /\ UNCHANGED layoutVars
        /\ UNCHANGED gridVars
        /\ UNCHANGED menuVars
        /\ UNCHANGED lensVars

ContextMenuLayout ==
    \E panelId \in DOMAIN dashboardLayout.panels, which \in Modes :
        handleLayoutSubAction(panelId, which)

ShareFinishAlwaysPushes(previousAttributesByPanel) ==
    /\ pushUndo(AttributesUndoEntry(previousAttributesByPanel))
    /\ nextId' = nextId + 1
    /\ spc' = "idle"
    /\ sSource' = <<>>
    /\ sEmbeddable' = "none"
    /\ sIds' = <<>>
    /\ sPrev' = <<>>

\* ShareColorMappingAction.execute, from `previousAttributesByPanel.length > 0`
\* on: the undo entry is pushed once the loop is over
ShareFinish(previousAttributesByPanel) ==
    /\ IF Len(previousAttributesByPanel) > 0
       THEN /\ pushUndo(AttributesUndoEntry(previousAttributesByPanel))
            /\ nextId' = nextId + 1
       ELSE UNCHANGED <<stack, canUndo, nextId>>
    /\ spc' = "idle"
    /\ sSource' = <<>>
    /\ sEmbeddable' = "none"
    /\ sIds' = <<>>
    /\ sPrev' = <<>>

\* ShareColorMappingAction.execute({ embeddable }) up to the first
\* `await getChildApi(panelId)`; the embeddable's own id is skipped
ShareExecute(embeddable) ==
    LET sourceLayerConfigs == extractColorMappingFromAttributes(attrs[embeddable])
        targets == SelectSeq(selectedIds, LAMBDA id : id # embeddable)
    IN  /\ spc = "idle"
        /\ nextId <= MaxDashPushes
        /\ lastOp' = "share"
        /\ IF Len(sourceLayerConfigs) = 0 \/ Len(selectedIds) < 2
           THEN UNCHANGED <<stack, canUndo, nextId, spc, sSource, sEmbeddable, sIds, sPrev>>
           ELSE IF Len(targets) = 0
           THEN ShareFinish(<<>>)
           ELSE /\ spc' = "awaitChild"
                /\ sSource' = sourceLayerConfigs
                /\ sEmbeddable' = embeddable
                /\ sIds' = targets
                /\ sPrev' = <<>>
                /\ UNCHANGED <<stack, canUndo, nextId>>
        /\ UNCHANGED <<pending, ran>>
        /\ UNCHANGED <<dashboardLayout, selectedIds, attrs, upc, uRest, beforeRearrange>>
        /\ UNCHANGED layoutVars
        /\ UNCHANGED gridVars
        /\ UNCHANGED menuVars
        /\ UNCHANGED lensVars

ShareStart == \E embeddable \in DOMAIN attrs : ShareExecute(embeddable)

\* execute resumes after `await getChildApi(panelId)`: the target is updated,
\* then either the next id is awaited or the loop ends
ShareChildResolved ==
    LET panelId == Head(sIds)
        modifies == panelId \in DOMAIN attrs /\ Len(attrs[panelId].layers) > 0
        previousAttributesByPanel ==
            IF modifies
            THEN Append(sPrev, [panelId |-> panelId, attributes |-> attrs[panelId]])
            ELSE sPrev
    IN  /\ spc = "awaitChild"
        /\ lastOp' = "share"
        /\ attrs' = IF modifies
                    THEN [attrs EXCEPT ![panelId] =
                             applyColorMappingToAttributes(attrs[panelId], sSource)]
                    ELSE attrs
        /\ IF Len(sIds) > 1
           THEN /\ sIds' = Tail(sIds)
                /\ sPrev' = previousAttributesByPanel
                /\ UNCHANGED <<stack, canUndo, nextId, spc, sSource, sEmbeddable>>
           ELSE ShareFinish(previousAttributesByPanel)
        /\ UNCHANGED <<pending, ran>>
        /\ UNCHANGED <<dashboardLayout, selectedIds, upc, uRest, beforeRearrange>>
        /\ UNCHANGED layoutVars
        /\ UNCHANGED gridVars
        /\ UNCHANGED menuVars
        /\ UNCHANGED lensVars

\* handleKeyDown, isUndo: dashboardApi.runUndo().  A layout entry restores its
\* snapshot and settles within the same task; a color-mapping entry awaits
\* getChildApi before it restores anything.
UndoKey ==
    /\ IF Len(stack) = 0
       THEN /\ lastOp' = "noop"
            /\ UNCHANGED <<stack, canUndo, pending, dashboardLayout, upc, uRest>>
       ELSE LET fn == PoppedFn(stack)
            IN  /\ stack' = StackAfterPop(stack)
                /\ IF fn.kind = "layout"
                   THEN /\ dashboardLayout' = fn.snapshot
                        /\ canUndo' = CanUndoAfterSettle(StackAfterPop(stack))
                        /\ lastOp' = "undoLayout"
                        /\ UNCHANGED <<pending, upc, uRest>>
                   ELSE /\ upc = "idle"
                        /\ upc' = "awaitChild"
                        /\ uRest' = fn.previous
                        /\ pending' = pending + 1
                        /\ lastOp' = "undoAttrs"
                        /\ UNCHANGED <<canUndo, dashboardLayout>>
    /\ UNCHANGED <<ran, nextId>>
    /\ UNCHANGED <<selectedIds, attrs, spc, sSource, sEmbeddable, sIds, sPrev, beforeRearrange>>
    /\ UNCHANGED layoutVars
    /\ UNCHANGED gridVars
    /\ UNCHANGED menuVars
    /\ UNCHANGED lensVars

\* the color-mapping reversal resumes after `await getChildApi(panelId)`; after
\* the last entry its promise resolves and runUndo's finally block runs
UndoChildResolved ==
    LET entry == Head(uRest)
    IN  /\ upc = "awaitChild"
        /\ lastOp' = "undoStep"
        /\ attrs' = IF entry.panelId \in DOMAIN attrs
                    THEN [attrs EXCEPT ![entry.panelId] = entry.attributes]
                    ELSE attrs
        /\ IF Len(uRest) > 1
           THEN /\ uRest' = Tail(uRest)
                /\ UNCHANGED <<upc, pending, canUndo>>
           ELSE /\ uRest' = <<>>
                /\ upc' = "idle"
                /\ pending' = pending - 1
                /\ canUndo' = CanUndoAfterSettle(stack)
        /\ UNCHANGED <<stack, ran, nextId>>
        /\ UNCHANGED <<dashboardLayout, selectedIds, spc, sSource, sEmbeddable, sIds, sPrev,
                       beforeRearrange>>
        /\ UNCHANGED layoutVars
        /\ UNCHANGED gridVars
        /\ UNCHANGED menuVars
        /\ UNCHANGED lensVars

SelectPanel == \E id \in DOMAIN dashboardLayout.panels : TogglePanelSelection(id)

NextDash ==
    \/ SelectPanel
    \/ ContextMenuLayout
    \/ ShareStart
    \/ ShareChildResolved
    \/ UndoKey
    \/ UndoChildResolved

SpecDash == InitDash /\ [][NextDash]_vars

(***************************************************************************)
(* Undoable mutations: properties                                          *)
(***************************************************************************)
\* C5: the undo entry of an undoable mutation is on the stack before any of
\* its effects can be observed: right after a bulk rearrange the newest
\* entry restores the layout the rearrange read, and while the
\* share-color-mapping action waits at an await having already updated a
\* target panel, an entry restoring those panels is on the stack.
C5_UndoPushedBeforeEffect ==
    /\ lastOp = "rearrange" =>
          /\ Len(stack) > 0
          /\ stack[Len(stack)] = LayoutUndoEntry(beforeRearrange.before)
    /\ (spc = "awaitChild" /\ Len(sPrev) > 0) =>
          \E i \in 1..Len(stack) :
              /\ stack[i].kind = "attrs"
              /\ \A k \in 1..Len(sPrev) : \E j \in 1..Len(stack[i].previous) :
                     stack[i].previous[j] = sPrev[k]

\* C6: a bulk rearrange immediately followed by runUndo leaves the layout
\* that existed before the rearrange: the same panels with the same grid and
\* sectionId, the same sections and the same pinnedPanels.
C6_Step ==
    (lastOp = "rearrange" /\ lastOp' \in {"undoLayout", "undoAttrs", "noop"}) =>
        /\ lastOp' = "undoLayout"
        /\ dashboardLayout' = beforeRearrange.before

C6_RearrangeThenUndoRestores == [][C6_Step]_vars

\* a rearrange that moved a panel into another section was undone
C6_Witness ==
    /\ lastOp = "undoLayout"
    /\ dashboardLayout = beforeRearrange.before
    /\ beforeRearrange.after # beforeRearrange.before
    /\ \E id \in DOMAIN dashboardLayout.panels :
           beforeRearrange.after.panels[id].grid.sectionId # dashboardLayout.panels[id].grid.sectionId
    /\ stack = <<>>
    /\ ~canUndo

\* C12: applySelectedPanelsLayout moves every selected panel present in the
\* layout into one section: the section that a panel first in ascending
\* (y, x) order of the input layout had before the call (undefined being the
\* root section), whatever section each panel was in.
C12_OneTargetSection ==
    (lpc = "done" /\ SelectedPresent # {}) =>
        \E first \in SelectedPresent :
            /\ \A id \in SelectedPresent : AtOrBefore(first, id)
            /\ \A id \in SelectedPresent :
                   OutGrid(id).sectionId = InGrid(first).sectionId

\* a panel of the root section was moved into section s1 and, in another
\* call, a panel of s1 into the root section
C12_Witness ==
    /\ lpc = "done"
    /\ Cardinality(SelectedPresent) >= 3
    /\ \E id \in SelectedPresent :
           InGrid(id).sectionId = NoSection /\ OutGrid(id).sectionId = "s1"
    /\ \E id \in SelectedPresent :
           InGrid(id).sectionId = "s1" /\ OutGrid(id).sectionId = "s1"

\* C13: applySelectedPanelsLayout changes nothing but the grid of the selected
\* panels: the keys of panels are the same, a panel outside the selection
\* keeps its entry, a selected panel keeps every field but grid, and
\* sections and pinnedPanels are the input's.
C13_OnlySelectedGridsChange ==
    lpc = "done" =>
        /\ DOMAIN outLayout.panels = DOMAIN inLayout.panels
        /\ \A id \in DOMAIN inLayout.panels \ SelectedPresent :
               outLayout.panels[id] = inLayout.panels[id]
        /\ \A id \in SelectedPresent :
               /\ outLayout.panels[id].type = inLayout.panels[id].type
               /\ [outLayout.panels[id] EXCEPT !.grid = InGrid(id)] = inLayout.panels[id]
        /\ outLayout.sections = inLayout.sections
        /\ outLayout.pinnedPanels = inLayout.pinnedPanels
        /\ DOMAIN outLayout = DOMAIN inLayout

\* panels of both types were rearranged next to panels left alone, in a
\* layout that has a section and a pinned panel
C13_Witness ==
    /\ lpc = "done"
    /\ inLayout.pinnedPanels # NoEntries
    /\ inLayout.sections # NoEntries
    /\ DOMAIN inLayout.panels \ SelectedPresent # {}
    /\ \E p, q \in SelectedPresent :
           /\ OutGrid(p) # InGrid(p)
           /\ OutGrid(q) # InGrid(q)
           /\ inLayout.panels[p].type # inLayout.panels[q].type

\* C14: the layout returned depends on the members of the selection only:
\* the same members inserted in the opposite order give the same layout,
\* also when selected panels have equal (y, x).
C14_InsertionOrderIrrelevant ==
    (lpc = "done" /\ ~outRaised) =>
        applySelectedPanelsLayout(inLayout, Reverse(inSelected), inMode) = outLayout

\* C15: repeating the call on its own result with the same selection and
\* mode changes no panel's geometry or section.
C15_Idempotent ==
    lpc = "reapplied" =>
        \A id \in DOMAIN outLayout.panels :
            outAgain.panels[id].grid = outLayout.panels[id].grid

\* C16: prettify gives every panel the x, y, w, h and the section that
\* applySelectedPanelsLayout gives it in mode 'grid' when all panels of the
\* layout are selected.
C16_PrettifyIsGridModeOnAll ==
    lpc = "prettified" =>
        LET all == applySelectedPanelsLayout(inLayout, ObjectKeys(inLayout.panels), "grid")
        IN  \A id \in DOMAIN inLayout.panels :
                /\ Rect(outLayout.panels[id].grid) = Rect(all.panels[id].grid)
                /\ outLayout.panels[id].grid.sectionId = all.panels[id].grid.sectionId

\* every sectionId of a panel is undefined or a key of sections
SectionsValid(layout) ==
    \A id \in DOMAIN layout.panels :
        layout.panels[id].grid.sectionId \in DOMAIN layout.sections \cup {NoSection}

\* C17: when every panel's sectionId references a key of sections in the
\* layout an operation starts from, the same holds in the layout produced by
\* applySelectedPanelsLayout (once and repeated), by prettify and by
\* onLayoutChange from an external grid layout.
C17_SectionReferencesValid ==
    SectionsValid(inLayout) =>
        /\ lpc \in {"applied", "reapplied", "prettified", "converted"} =>
               SectionsValid(outLayout)
        /\ lpc = "reapplied" => SectionsValid(outAgain)

\* the grid reported a section the layout did not have, with a panel in it
C17_Witness ==
    /\ lpc = "converted"
    /\ viewMode = "edit"
    /\ "s2" \notin DOMAIN inLayout.sections
    /\ "s2" \in DOMAIN outLayout.sections
    /\ "s1" \notin DOMAIN outLayout.sections
    /\ \E id \in DOMAIN outLayout.panels :
           /\ id \in DOMAIN inLayout.panels
           /\ inLayout.panels[id].grid.sectionId = "s1"
           /\ outLayout.panels[id].grid.sectionId = "s2"

(***************************************************************************)
(* SpecGrid: DashboardGrid's selection-drag gesture                        *)
(***************************************************************************)
DRAG_THRESHOLD_PX == 5

Abs(n) == IF n < 0 THEN 0 - n ELSE n

Min(a, b) == IF a <= b THEN a ELSE b

Max(a, b) == IF a >= b THEN a ELSE b

\* getBoundingClientRect() of the panels that are rendered, in client pixels;
\* no two of them overlap
PanelBounds ==
    [id \in {"p1", "p2", "p3"} |->
        IF id = "p1" THEN [left |-> 10, top |-> 10, right |-> 20, bottom |-> 20]
        ELSE IF id = "p2" THEN [left |-> 30, top |-> 10, right |-> 40, bottom |-> 20]
        ELSE [left |-> 10, top |-> 30, right |-> 20, bottom |-> 40]]

\* the client coordinates mouse events are delivered at
PointerPoints ==
    {[x |-> 0, y |-> 0], [x |-> 4, y |-> 3], [x |-> 5, y |-> 0], [x |-> 0, y |-> 6],
     [x |-> 10, y |-> 10], [x |-> 21, y |-> 21], [x |-> 29, y |-> 29],
     [x |-> 30, y |-> 10], [x |-> 40, y |-> 20], [x |-> 50, y |-> 50]}

\* getBoundingClientRect() of the grid's div, the element that carries
\* onMouseDown and onClick; the document extends beyond it
GridBounds == [left |-> 0, top |-> 0, right |-> 45, bottom |-> 45]

InsideRect(point, rect) ==
    /\ rect.left <= point.x
    /\ point.x <= rect.right
    /\ rect.top <= point.y
    /\ point.y <= rect.bottom

ArmsGestureIgnoresShift(mode, shiftKey) == mode = "edit"

\* handleGridMouseDown: `if (viewMode !== 'edit' || !e.shiftKey) return`
ArmsGesture(mode, shiftKey) == ~(mode # "edit" \/ ~shiftKey)

\* onMove: hasDragged
hasDragged(start, point) ==
    \/ Abs(point.x - start.x) >= DRAG_THRESHOLD_PX
    \/ Abs(point.y - start.y) >= DRAG_THRESHOLD_PX

\* left, top, right, bottom of the rectangle spanned by drag.start and
\* drag.current
SelectionRect(drag) ==
    [left |-> Min(drag.start.x, drag.current.x),
     top |-> Min(drag.start.y, drag.current.y),
     right |-> Max(drag.start.x, drag.current.x),
     bottom |-> Max(drag.start.y, drag.current.y)]

rectsIntersectColumnsOnly(sel, panel) ==
    ~(sel.right < panel.left \/ sel.left > panel.right)

rectsIntersectWithinOnePixel(sel, panel) ==
    ~(\/ sel.right + 1 < panel.left
      \/ sel.left > panel.right + 1
      \/ sel.bottom + 1 < panel.top
      \/ sel.top > panel.bottom + 1)

rectsIntersect(sel, panel) ==
    ~(\/ sel.right < panel.left
      \/ sel.left > panel.right
      \/ sel.bottom < panel.top
      \/ sel.top > panel.bottom)

\* getAllPanelIdsFromLayout, for the grid layout that shows layout
getAllPanelIdsFromLayout(layout) == ObjectKeys(layout.panels)

\* getPanelsInRect(rect): the ids with a mounted ref whose bounds intersect
getPanelsInRect(layout, rect) ==
    SelectSeq(getAllPanelIdsFromLayout(layout),
              LAMBDA id : id \in DOMAIN PanelBounds /\ rectsIntersect(rect, PanelBounds[id]))

\* the effect on [selectionDrag, getPanelsInRect]: the preview it sets
PreviewOf(layout, drag) ==
    IF drag = <<>> THEN <<>> ELSE getPanelsInRect(layout, SelectionRect(drag[1]))

InitGrid ==
    /\ UndoManagerInit
    /\ LayoutCallIdle
    /\ GridIdle
    /\ MenuIdle
    /\ LensIdle
    /\ ApiIdle
    /\ dashboardLayout = DashInitLayout
    /\ selectedIds = <<>>
    /\ attrs = NoEntries
    /\ spc = "idle"
    /\ sSource = <<>>
    /\ sEmbeddable = "none"
    /\ sIds = <<>>
    /\ sPrev = <<>>
    /\ upc = "idle"
    /\ uRest = <<>>
    /\ beforeRearrange = [before |-> EmptyLayout, after |-> EmptyLayout]

\* a mousedown inside the grid, at the pointer's position: handleGridMouseDown
handleGridMouseDown(shiftKey) ==
    /\ ~pointerDown
    /\ pendingClick = "none"
    /\ InsideRect(pointerAt, GridBounds)
    /\ pointerDown' = TRUE
    /\ downShift' = shiftKey
    /\ lastOp' = "down"
    /\ IF ArmsGesture(viewMode, shiftKey)
       THEN listening' = TRUE /\ gestureStart' = pointerAt
       ELSE UNCHANGED <<listening, gestureStart>>
    /\ UNCHANGED <<viewMode, pointerAt, dragStateRef, selectionDrag,
                   previewSelectedPanelIds, justDidSelectionDragRef, pendingClick>>
    /\ UNCHANGED <<stack, canUndo, pending, ran, nextId>>
    /\ UNCHANGED layoutVars
    /\ UNCHANGED menuVars
    /\ UNCHANGED lensVars
    /\ UNCHANGED dashVars

GridMouseDown == \E shiftKey \in BOOLEAN : handleGridMouseDown(shiftKey)

\* a mousemove to point; onMove runs when it is registered, and the preview
\* effect runs when selectionDrag was set
onMove(point) ==
    /\ point # pointerAt
    /\ pendingClick = "none"
    /\ pointerAt' = point
    /\ lastOp' = "move"
    /\ IF ~listening
       THEN UNCHANGED <<dragStateRef, selectionDrag, previewSelectedPanelIds>>
       ELSE IF dragStateRef # <<>>
       THEN /\ dragStateRef' = <<[dragStateRef[1] EXCEPT !.current = point]>>
            /\ selectionDrag' = IF selectionDrag # <<>>
                                THEN <<[selectionDrag[1] EXCEPT !.current = point]>>
                                ELSE <<>>
            /\ previewSelectedPanelIds' = PreviewOf(dashboardLayout, selectionDrag')
       ELSE IF hasDragged(gestureStart, point)
       THEN /\ dragStateRef' = <<[start |-> gestureStart, current |-> point]>>
            /\ selectionDrag' = <<[start |-> gestureStart, current |-> point]>>
            /\ previewSelectedPanelIds' = PreviewOf(dashboardLayout, selectionDrag')
       ELSE UNCHANGED <<dragStateRef, selectionDrag, previewSelectedPanelIds>>
    /\ UNCHANGED <<viewMode, pointerDown, downShift, listening, gestureStart,
                   justDidSelectionDragRef, pendingClick>>
    /\ UNCHANGED <<stack, canUndo, pending, ran, nextId>>
    /\ UNCHANGED layoutVars
    /\ UNCHANGED menuVars
    /\ UNCHANGED lensVars
    /\ UNCHANGED dashVars

GridMouseMove == \E point \in PointerPoints : onMove(point)

onUpWithoutStateCheck ==
    /\ pointerDown
    /\ pointerDown' = FALSE
    /\ lastOp' = "up"
    /\ listening' = FALSE
    /\ IF listening
       THEN /\ selectedIds' = IF dragStateRef # <<>>
                               THEN getPanelsInRect(dashboardLayout,
                                                    SelectionRect(dragStateRef[1]))
                               ELSE <<>>
            /\ dragStateRef' = <<>>
            /\ selectionDrag' = <<>>
            /\ previewSelectedPanelIds' = <<>>
            /\ justDidSelectionDragRef' = TRUE
            /\ pendingClick' = "afterDrag"
       ELSE /\ UNCHANGED <<selectedIds, dragStateRef, selectionDrag,
                           previewSelectedPanelIds, justDidSelectionDragRef>>
            /\ pendingClick' = "plain"
    /\ UNCHANGED <<viewMode, pointerAt, downShift, gestureStart>>
    /\ UNCHANGED <<stack, canUndo, pending, ran, nextId>>
    /\ UNCHANGED layoutVars
    /\ UNCHANGED menuVars
    /\ UNCHANGED lensVars
    /\ UNCHANGED <<dashboardLayout, attrs, spc, sSource, sEmbeddable, sIds, sPrev, upc, uRest,
                   beforeRearrange>>

\* a mouseup that ends a press begun inside the grid; onUp runs when it is
\* registered, and the browser owes the click event of this press
onUp ==
    /\ pointerDown
    /\ pointerDown' = FALSE
    /\ lastOp' = "up"
    /\ listening' = FALSE
    /\ IF listening /\ dragStateRef # <<>>
       THEN /\ selectedIds' = getPanelsInRect(dashboardLayout, SelectionRect(dragStateRef[1]))
            /\ dragStateRef' = <<>>
            /\ selectionDrag' = <<>>
            /\ previewSelectedPanelIds' = <<>>
            /\ justDidSelectionDragRef' = TRUE
            /\ pendingClick' = "afterDrag"
       ELSE /\ UNCHANGED <<selectedIds, dragStateRef, selectionDrag,
                           previewSelectedPanelIds, justDidSelectionDragRef>>
            /\ pendingClick' = "plain"
    /\ UNCHANGED <<viewMode, pointerAt, downShift, gestureStart>>
    /\ UNCHANGED <<stack, canUndo, pending, ran, nextId>>
    /\ UNCHANGED layoutVars
    /\ UNCHANGED menuVars
    /\ UNCHANGED lensVars
    /\ UNCHANGED <<dashboardLayout, attrs, spc, sSource, sEmbeddable, sIds, sPrev, upc, uRest,
                   beforeRearrange>>

\* the click event of a press, delivered to the grid's div: handleGridClick.
\* onPanel is `e.target.closest('[data-test-subj="dashboardPanel"]')`
handleGridClick(onPanel) ==
    /\ pendingClick # "none"
    /\ InsideRect(pointerAt, GridBounds)
    /\ onPanel => \E id \in DOMAIN PanelBounds : InsideRect(pointerAt, PanelBounds[id])
    /\ pendingClick' = "none"
    /\ lastOp' = IF onPanel THEN "clickPanel" ELSE "clickBackground"
    /\ IF viewMode # "edit"
       THEN UNCHANGED <<justDidSelectionDragRef, selectedIds>>
       ELSE IF justDidSelectionDragRef
       THEN justDidSelectionDragRef' = FALSE /\ UNCHANGED selectedIds
       ELSE IF Len(selectedIds) = 0
       THEN UNCHANGED <<justDidSelectionDragRef, selectedIds>>
       ELSE IF onPanel
       THEN UNCHANGED <<justDidSelectionDragRef, selectedIds>>
       ELSE selectedIds' = <<>> /\ UNCHANGED justDidSelectionDragRef
    /\ UNCHANGED <<viewMode, pointerDown, pointerAt, downShift, listening, gestureStart,
                   dragStateRef, selectionDrag, previewSelectedPanelIds>>
    /\ UNCHANGED <<stack, canUndo, pending, ran, nextId>>
    /\ UNCHANGED layoutVars
    /\ UNCHANGED menuVars
    /\ UNCHANGED lensVars
    /\ UNCHANGED <<dashboardLayout, attrs, spc, sSource, sEmbeddable, sIds, sPrev, upc, uRest,
                   beforeRearrange>>

GridClick == \E onPanel \in BOOLEAN : handleGridClick(onPanel)

\* the button was released outside the grid's div: the click event goes to
\* an ancestor of the div and no handler of the grid runs
ClickOutsideGrid ==
    /\ pendingClick # "none"
    /\ ~InsideRect(pointerAt, GridBounds)
    /\ pendingClick' = "none"
    /\ lastOp' = "clickOutside"
    /\ UNCHANGED <<viewMode, pointerDown, pointerAt, downShift, listening, gestureStart,
                   dragStateRef, selectionDrag, previewSelectedPanelIds,
                   justDidSelectionDragRef>>
    /\ UNCHANGED <<stack, canUndo, pending, ran, nextId>>
    /\ UNCHANGED layoutVars
    /\ UNCHANGED menuVars
    /\ UNCHANGED lensVars
    /\ UNCHANGED dashVars

\* dashboardApi.setViewMode('view') / setViewMode('edit')
SetViewMode ==
    /\ pendingClick = "none"
    /\ viewMode' = IF viewMode = "edit" THEN "view" ELSE "edit"
    /\ lastOp' = "mode"
    /\ UNCHANGED <<pointerDown, pointerAt, downShift, listening, gestureStart,
                   dragStateRef, selectionDrag, previewSelectedPanelIds,
                   justDidSelectionDragRef, pendingClick>>
    /\ UNCHANGED <<stack, canUndo, pending, ran, nextId>>
    /\ UNCHANGED layoutVars
    /\ UNCHANGED menuVars
    /\ UNCHANGED lensVars
    /\ UNCHANGED dashVars

\* a panel's selection is toggled between presses of the mouse button, never
\* while a button is held or a click is still owed
GridSelectPanel ==
    /\ ~pointerDown
    /\ pendingClick = "none"
    /\ SelectPanel

NextGrid ==
    \/ GridMouseDown
    \/ GridMouseMove
    \/ onUp
    \/ GridClick
    \/ ClickOutsideGrid
    \/ SetViewMode
    \/ GridSelectPanel

SpecGrid == InitGrid /\ [][NextGrid]_vars

(***************************************************************************)
(* Selection gesture: properties                                           *)
(***************************************************************************)
IsMouseDownStep == ~pointerDown /\ pointerDown'
IsMouseMoveStep == lastOp' = "move" /\ pointerAt' # pointerAt
IsMouseUpStep == pointerDown /\ ~pointerDown'

\* C18: a mousedown arms the gesture exactly when Shift is held and the view
\* mode is edit; after a mousedown that did not arm it, no mousemove and no
\* mouseup creates a live rectangle, a non-empty preview or a change of the
\* selection; a live rectangle exists in an armed gesture only.
C18_Step ==
    /\ IsMouseDownStep => (listening' <=> (downShift' /\ viewMode = "edit"))
    /\ (pointerDown /\ ~listening /\ (IsMouseMoveStep \/ IsMouseUpStep)) =>
           /\ ~listening'
           /\ dragStateRef' = <<>>
           /\ selectionDrag' = <<>>
           /\ previewSelectedPanelIds' = <<>>
           /\ selectedIds' = selectedIds
    /\ (selectionDrag' # <<>> \/ previewSelectedPanelIds' # <<>>) => listening'

C18_ArmedOnlyWithShiftInEdit == [][C18_Step]_vars

\* in edit mode a mousedown without Shift was followed by a move across the
\* panels, with panels selected
C18_Witness ==
    /\ pointerDown
    /\ ~listening
    /\ ~downShift
    /\ viewMode = "edit"
    /\ lastOp = "move"
    /\ pointerAt = [x |-> 40, y |-> 20]
    /\ selectedIds # <<>>
    /\ selectionDrag = <<>>

\* C19: in an armed gesture that is not yet dragging, a mousemove whose
\* displacement from the start exceeds 5 px on an axis establishes the live
\* rectangle from the start to the pointer, and a mousemove whose
\* displacement is at most 5 px on both axes does not.
C19_Step ==
    (listening /\ dragStateRef = <<>> /\ IsMouseMoveStep) =>
        LET dx == Abs(pointerAt'.x - gestureStart.x)
            dy == Abs(pointerAt'.y - gestureStart.y)
        IN  /\ (dx > 5 \/ dy > 5) =>
                   /\ selectionDrag' = <<[start |-> gestureStart, current |-> pointerAt']>>
                   /\ dragStateRef' = selectionDrag'
            /\ (dx <= 5 /\ dy <= 5) =>
                   /\ selectionDrag' = <<>>
                   /\ dragStateRef' = <<>>

C19_DragBeginsBeyondThreshold == [][C19_Step]_vars

\* C20: while a live rectangle exists it is spanned by the gesture's start
\* and the pointer's position, and the preview holds exactly the rendered
\* panels whose bounds overlap it (neither lies entirely to the left of,
\* right of, above or below the other), whatever the drag direction.
C20_PreviewIsIntersection ==
    selectionDrag # <<>> =>
        LET d == selectionDrag[1]
            left == IF d.start.x < d.current.x THEN d.start.x ELSE d.current.x
            right == IF d.start.x < d.current.x THEN d.current.x ELSE d.start.x
            top == IF d.start.y < d.current.y THEN d.start.y ELSE d.current.y
            bottom == IF d.start.y < d.current.y THEN d.current.y ELSE d.start.y
        IN  /\ d.start = gestureStart
            /\ d.current = pointerAt
            /\ Range(previewSelectedPanelIds) =
                   {id \in DOMAIN PanelBounds \cap DOMAIN dashboardLayout.panels :
                       /\ left <= PanelBounds[id].right
                       /\ PanelBounds[id].left <= right
                       /\ top <= PanelBounds[id].bottom
                       /\ PanelBounds[id].top <= bottom}
            /\ Len(previewSelectedPanelIds) = Cardinality(Range(previewSelectedPanelIds))

\* a drag up and to the left, from below the panels' first row to the
\* origin, previews p1 and p2 but not p3
C20_Witness ==
    /\ selectionDrag # <<>>
    /\ selectionDrag[1].start = [x |-> 40, y |-> 20]
    /\ selectionDrag[1].current = [x |-> 0, y |-> 0]
    /\ Range(previewSelectedPanelIds) = {"p1", "p2"}

\* the live rectangle, as left, top, right and bottom
LiveRect == SelectionRect(selectionDrag[1])

\* C21: with rendered panels that do not overlap, a live rectangle that
\* coincides with the bounding box of p2 previews exactly p2, and a live
\* rectangle that lies one pixel away from the bounding box of every panel
\* previews nothing.
C21_ExactBoxAndNearMiss ==
    selectionDrag # <<>> =>
        /\ LiveRect = PanelBounds["p2"] => previewSelectedPanelIds = <<"p2">>
        /\ LiveRect = [left |-> 21, top |-> 21, right |-> 29, bottom |-> 29] =>
               previewSelectedPanelIds = <<>>

\* a drag from the bottom right corner of p2 to its top left corner
C21_Witness ==
    /\ selectionDrag # <<>>
    /\ selectionDrag[1].start = [x |-> 40, y |-> 20]
    /\ selectionDrag[1].current = [x |-> 30, y |-> 10]
    /\ LiveRect = PanelBounds["p2"]
    /\ previewSelectedPanelIds = <<"p2">>

\* a drag through the gap between the panels, one pixel from each of them
C21_NearMissReached ==
    /\ selectionDrag # <<>>
    /\ LiveRect = [left |-> 21, top |-> 21, right |-> 29, bottom |-> 29]
    /\ \A id \in DOMAIN PanelBounds :
           \/ PanelBounds[id].right + 1 = LiveRect.left
           \/ PanelBounds[id].left - 1 = LiveRect.right
           \/ PanelBounds[id].bottom + 1 = LiveRect.top
           \/ PanelBounds[id].top - 1 = LiveRect.bottom

\* C22: the mouseup that ends a drag merges the preview into the selection:
\* afterwards every previewed panel is selected and every panel that was
\* selected before is still selected.
C22_Step ==
    (IsMouseUpStep /\ listening /\ dragStateRef # <<>>) =>
        /\ Range(previewSelectedPanelIds) \subseteq Range(selectedIds')
        /\ Range(selectedIds) \subseteq Range(selectedIds')

C22_PreviewMergedIntoSelection == [][C22_Step]_vars

\* C23: in an armed gesture the selection is changed only by the mouseup
\* that ends a drag; a mousemove changes nothing but the pointer's position,
\* the live rectangle and the preview; a mouseup before any drag changes
\* neither the selection nor the click-suppression mark, leaves no live
\* rectangle and no preview, and ends the gesture.
C23_Step ==
    /\ (listening /\ selectedIds' # selectedIds) =>
           (IsMouseUpStep /\ dragStateRef # <<>>)
    /\ (listening /\ IsMouseMoveStep) =>
           /\ selectedIds' = selectedIds
           /\ justDidSelectionDragRef' = justDidSelectionDragRef
           /\ listening'
           /\ gestureStart' = gestureStart
           /\ viewMode' = viewMode
           /\ dashboardLayout' = dashboardLayout
           /\ undoVars' = [undoVars EXCEPT ![6] = "move"]
    /\ (listening /\ IsMouseUpStep /\ dragStateRef = <<>>) =>
           /\ selectedIds' = selectedIds
           /\ justDidSelectionDragRef' = justDidSelectionDragRef
           /\ ~listening'
           /\ dragStateRef' = <<>>
           /\ selectionDrag' = <<>>
           /\ previewSelectedPanelIds' = <<>>

C23_OnlyDragEndChangesSelection == [][C23_Step]_vars

\* an armed gesture that began at (4,3) and moved 1 px and 3 px, below the
\* threshold, has ended with panels selected and the mark not set
C23_Witness ==
    /\ lastOp = "up"
    /\ pendingClick = "plain"
    /\ downShift
    /\ viewMode = "edit"
    /\ gestureStart = [x |-> 4, y |-> 3]
    /\ pointerAt = [x |-> 5, y |-> 0]
    /\ selectedIds # <<>>
    /\ ~justDidSelectionDragRef
    /\ ~listening

IsGridClickStep ==
    /\ pendingClick # "none"
    /\ lastOp' \in {"clickPanel", "clickBackground"}

\* C24: a click on the grid's empty background, in edit mode and with panels
\* selected, empties the selection unless it is the click of the press that
\* ended a drag; a click inside a rendered panel, and a click outside edit
\* mode, leave the selection as it was.
C24_Step ==
    IsGridClickStep =>
        /\ (/\ lastOp' = "clickBackground"
            /\ viewMode = "edit"
            /\ selectedIds # <<>>
            /\ pendingClick # "afterDrag") => selectedIds' = <<>>
        /\ (lastOp' = "clickPanel" \/ viewMode # "edit") => selectedIds' = selectedIds

C24_ClickToClear == [][C24_Step]_vars

\* C25: leaving edit mode clears the selection: whenever the view mode
\* changes from edit to another mode the selection is empty afterwards, and
\* it is empty in every state outside edit mode.
C25_Step ==
    /\ (viewMode = "edit" /\ viewMode' # "edit") => selectedIds' = <<>>
    /\ viewMode' # "edit" => selectedIds' = <<>>

C25_LeavingEditClearsSelection == [][C25_Step]_vars

(***************************************************************************)
(* SpecKeys: the viewport's keyboard shortcuts                              *)
(***************************************************************************)
\* what document.activeElement is when the key goes down
FocusKinds == {"body", "input", "textarea", "contenteditable"}

\* the keydown events delivered to document: c, v, z and x, bare, with Ctrl
\* or with Cmd, outside an editable element, z also with Shift; and Ctrl+c,
\* Ctrl+v, Ctrl+z inside each kind of editable element
KeyDownEvents ==
    {[key |-> k, metaKey |-> m[1], ctrlKey |-> m[2], shiftKey |-> FALSE, focus |-> "body"] :
        k \in {"c", "v", "z", "x"},
        m \in {<<FALSE, FALSE>>, <<TRUE, FALSE>>, <<FALSE, TRUE>>}}
    \cup
    {[key |-> "z", metaKey |-> m[1], ctrlKey |-> m[2], shiftKey |-> TRUE, focus |-> "body"] :
        m \in {<<TRUE, FALSE>>, <<FALSE, TRUE>>}}
    \cup
    {[key |-> k, metaKey |-> FALSE, ctrlKey |-> TRUE, shiftKey |-> FALSE, focus |-> f] :
        k \in {"c", "v", "z"}, f \in FocusKinds \ {"body"}}

\* handleKeyDown: isInputFocused
isInputFocused(e) ==
    \/ e.focus = "input"
    \/ e.focus = "textarea"
    \/ e.focus = "contenteditable"

isCopy(e) == (e.metaKey \/ e.ctrlKey) /\ e.key = "c"

isPaste(e) == (e.metaKey \/ e.ctrlKey) /\ e.key = "v"

isUndo(e) == (e.metaKey \/ e.ctrlKey) /\ e.key = "z" /\ ~e.shiftKey

KeyActionIgnoresFocus(e, mode) ==
    IF mode # "edit" THEN "none"
    ELSE IF isCopy(e) THEN "copySelectedPanels"
    ELSE IF isPaste(e) THEN "runPastePanels"
    ELSE IF isUndo(e) THEN "runUndo"
    ELSE "none"

\* the dashboardApi method a keydown calls: the listener is registered in
\* edit mode only, returns when an editable element has the focus, and takes
\* the first branch of the if / else-if chain that applies; dashboardApi.runUndo
\* is defined
KeyAction(e, mode) ==
    IF mode # "edit" THEN "none"
    ELSE IF isInputFocused(e) THEN "none"
    ELSE IF isCopy(e) THEN "copySelectedPanels"
    ELSE IF isPaste(e) THEN "runPastePanels"
    ELSE IF isUndo(e) THEN "runUndo"
    ELSE "none"

\* a dashboard of two Lens panels side by side, an empty section and a
\* pinned control
KeysInitLayout ==
    [panels |->
        [id \in {"p1", "p2"} |->
            [type |-> "lens",
             grid |-> IF id = "p1"
                      THEN [x |-> 0, y |-> 0, w |-> 16, h |-> 10, sectionId |-> NoSection]
                      ELSE [x |-> 16, y |-> 0, w |-> 32, h |-> 10, sectionId |-> NoSection]]],
     sections |-> [sec \in {"s1"} |->
                      [collapsed |-> FALSE, title |-> "Section 1", grid |-> [y |-> 10]]],
     pinnedPanels |-> [id \in {"ctrl1"} |-> [type |-> "optionsListControl"]]]

InitKeys ==
    /\ UndoManagerInit
    /\ LayoutCallIdle
    /\ GridIdle
    /\ MenuIdle
    /\ LensIdle
    /\ ApiIdle
    /\ dashboardLayout = KeysInitLayout
    /\ selectedIds = <<>>
    /\ attrs = DashInitAttrs
    /\ spc = "idle"
    /\ sSource = <<>>
    /\ sEmbeddable = "none"
    /\ sIds = <<>>
    /\ sPrev = <<>>
    /\ upc = "idle"
    /\ uRest = <<>>
    /\ beforeRearrange = [before |-> EmptyLayout, after |-> EmptyLayout]

\* a keydown event e: handleKeyDown, with copySelectedPanels and runUndo up to
\* the reversal's first await; runPastePanels is a collaborator
handleKeyDown(e) ==
    LET action == KeyAction(e, viewMode)
    IN  /\ keyEvent' = e
        /\ dispatched' = action
        /\ copiedPanelIds' = IF action = "copySelectedPanels"
                             THEN selectedIds
                             ELSE copiedPanelIds
        /\ IF action # "runUndo"
           THEN /\ lastOp' = "keydown"
                /\ UNCHANGED <<stack, canUndo, pending, dashboardLayout, upc, uRest>>
           ELSE IF Len(stack) = 0
           THEN /\ lastOp' = "noop"
                /\ UNCHANGED <<stack, canUndo, pending, dashboardLayout, upc, uRest>>
           ELSE LET fn == PoppedFn(stack)
                IN  /\ stack' = StackAfterPop(stack)
                    /\ IF fn.kind = "layout"
                       THEN /\ dashboardLayout' = fn.snapshot
                            /\ canUndo' = CanUndoAfterSettle(StackAfterPop(stack))
                            /\ lastOp' = "undoLayout"
                            /\ UNCHANGED <<pending, upc, uRest>>
                       ELSE /\ upc = "idle"
                            /\ upc' = "awaitChild"
                            /\ uRest' = fn.previous
                            /\ pending' = pending + 1
                            /\ lastOp' = "undoAttrs"
                            /\ UNCHANGED <<canUndo, dashboardLayout>>
        /\ UNCHANGED <<ran, nextId>>
        /\ UNCHANGED <<selectedIds, attrs, spc, sSource, sEmbeddable, sIds, sPrev,
                       beforeRearrange>>
        /\ UNCHANGED <<contextMenu, hasSingle, hasBatch, dpc, dRest, dOrigin,
                       effectiveIds, calls, handlerResult>>
        /\ UNCHANGED layoutVars
        /\ UNCHANGED gridVars
        /\ UNCHANGED lensVars

KeyDown == \E e \in KeyDownEvents : handleKeyDown(e)

\* the context menu is offered in edit mode only; its grid arrangement is the
\* layout change whose undo entry the shortcut runs
KeysRearrange ==
    /\ viewMode = "edit"
    /\ \E panelId \in DOMAIN dashboardLayout.panels : handleLayoutSubAction(panelId, "grid")

NextKeys ==
    \/ KeyDown
    \/ SelectPanel
    \/ KeysRearrange
    \/ SetViewMode

SpecKeys == InitKeys /\ [][NextKeys]_vars

(***************************************************************************)
(* Keyboard shortcuts: properties                                          *)
(***************************************************************************)
IsKeyDownStep == lastOp' \in {"keydown", "noop", "undoLayout", "undoAttrs"}

\* the shortcut a keydown is, read off the event: Ctrl or Cmd with c, v, or
\* z without Shift
ShortcutOf(e) ==
    IF ~(e.metaKey \/ e.ctrlKey) THEN "none"
    ELSE IF e.key = "c" THEN "copy"
    ELSE IF e.key = "v" THEN "paste"
    ELSE IF e.key = "z" /\ ~e.shiftKey THEN "undo"
    ELSE "none"

\* C26: a keydown that is a shortcut, in edit mode and with the focus outside
\* input, textarea and contenteditable elements, calls exactly the one
\* action of its shortcut (copy sets the copied set to the selection, undo
\* pops the newest undo entry if there is one); every other keydown calls
\* none and leaves the copied set, the layout and the undo stack unchanged.
C26_Step ==
    IsKeyDownStep =>
        LET e == keyEvent'
            qualifies == /\ viewMode = "edit"
                         /\ e.focus \notin {"input", "textarea", "contenteditable"}
                         /\ ShortcutOf(e) # "none"
        IN  /\ qualifies =>
                   /\ ShortcutOf(e) = "copy" =>
                          /\ dispatched' = "copySelectedPanels"
                          /\ copiedPanelIds' = selectedIds
                          /\ stack' = stack
                          /\ dashboardLayout' = dashboardLayout
                   /\ ShortcutOf(e) = "paste" =>
                          /\ dispatched' = "runPastePanels"
                          /\ copiedPanelIds' = copiedPanelIds
                          /\ stack' = stack
                   /\ ShortcutOf(e) = "undo" =>
                          /\ dispatched' = "runUndo"
                          /\ copiedPanelIds' = copiedPanelIds
                          /\ stack # <<>> => Len(stack') = Len(stack) - 1
            /\ ~qualifies =>
                   /\ dispatched' = "none"
                   /\ copiedPanelIds' = copiedPanelIds
                   /\ dashboardLayout' = dashboardLayout
                   /\ stack' = stack
                   /\ canUndo' = canUndo

C26_ShortcutsOnlyInEditOutsideInputs == [][C26_Step]_vars

\* Ctrl+z was pressed inside a textarea, in edit mode, with an undo entry on
\* the stack, a changed layout, panels selected and nothing copied
C26_Witness ==
    /\ keyEvent = [key |-> "z", metaKey |-> FALSE, ctrlKey |-> TRUE, shiftKey |-> FALSE,
                   focus |-> "textarea"]
    /\ viewMode = "edit"
    /\ dispatched = "none"
    /\ Len(stack) = 1
    /\ dashboardLayout # KeysInitLayout
    /\ selectedIds # <<>>
    /\ copiedPanelIds = <<>>

\* Cmd+c copied two selected panels
C26_CopyReached ==
    /\ keyEvent.key = "c"
    /\ keyEvent.metaKey
    /\ dispatched = "copySelectedPanels"
    /\ Len(copiedPanelIds) = 2

\* Ctrl+z undid a rearrangement
C26_UndoReached ==
    /\ keyEvent.key = "z"
    /\ dispatched = "runUndo"
    /\ lastOp = "undoLayout"
    /\ stack = <<>>
    /\ ~canUndo

(***************************************************************************)
(* SpecMenu: Duplicate and Remove, from the panel context menu and from the *)
(* top navigation, over collaborators that may fail                        *)
(***************************************************************************)
\* one call of a collaborator: the dashboardApi method, the ids passed, the
\* captureForUndo option passed, and "pending", "ok" or "failed"
Call(fn, ids, captureForUndo, outcome) ==
    [fn |-> fn, ids |-> ids, captureForUndo |-> captureForUndo, outcome |-> outcome]

OutcomeOf(ok) == IF ok THEN "ok" ELSE "failed"

\* handleDuplicate, handleRemove: which of the three branches runs
PathOf(ids) ==
    IF Len(ids) = 1 /\ hasSingle THEN "single"
    ELSE IF hasBatch THEN "batch"
    ELSE "item"

HandlerOutcomeSwallowsAll(path, ok) == "returned"

\* how the handler ends when its last collaborator call ended with ok: the
\* per-item loops catch, the single and batch branches have try / finally only
HandlerOutcome(path, ok) ==
    IF path = "item" THEN "returned"
    ELSE IF ok THEN "returned" ELSE "raised"

SelectionAfterRemoveKeptOnFailure(selected, ids, raised) ==
    IF raised THEN selected ELSE SelectSeq(selected, LAMBDA id : id \notin Range(ids))

\* handleRemove's finally block, removeSelectedPanels: nextSelected
SelectionAfterRemove(selected, ids, raised) ==
    SelectSeq(selected, LAMBDA id : id \notin Range(ids))

\* the calls of a per-item loop over ids, oks[i] telling whether call i succeeded;
\* a method that is not defined raises at every call
ItemCalls(fn, ids, captureForUndo, oks) ==
    [i \in 1..Len(ids) |->
        Call(fn, <<ids[i]>>, captureForUndo, OutcomeOf(hasSingle /\ oks[i]))]

InitMenu ==
    /\ UndoManagerInit
    /\ LayoutCallIdle
    /\ GridIdle
    /\ MenuIdle
    /\ LensIdle
    /\ hasSingle \in BOOLEAN
    /\ hasBatch \in BOOLEAN
    /\ dashboardLayout = DashInitLayout
    /\ selectedIds = <<>>
    /\ attrs = DashInitAttrs
    /\ spc = "idle"
    /\ sSource = <<>>
    /\ sEmbeddable = "none"
    /\ sIds = <<>>
    /\ sPrev = <<>>
    /\ upc = "idle"
    /\ uRest = <<>>
    /\ beforeRearrange = [before |-> EmptyLayout, after |-> EmptyLayout]

\* what no action of SpecMenu changes
MenuFrame ==
    /\ UNCHANGED <<stack, canUndo, pending, ran, nextId>>
    /\ UNCHANGED <<dashboardLayout, attrs, spc, sSource, sEmbeddable, sIds, sPrev, upc, uRest,
                   beforeRearrange>>
    /\ UNCHANGED <<copiedPanelIds, keyEvent, dispatched, hasSingle, hasBatch>>
    /\ UNCHANGED layoutVars
    /\ UNCHANGED gridVars
    /\ UNCHANGED lensVars

\* openContextMenu(panelId, position); the menu is rendered in edit mode
openContextMenu(panelId) ==
    /\ viewMode = "edit"
    /\ contextMenu' = <<panelId>>
    /\ lastOp' = "openMenu"
    /\ UNCHANGED <<selectedIds, dpc, dRest, dOrigin, effectiveIds, calls, handlerResult>>
    /\ MenuFrame

OpenContextMenu ==
    \E panelId \in DOMAIN dashboardLayout.panels \cup {NoPanel} : openContextMenu(panelId)

\* a Duplicate over ids up to its first await, or to its end when it does
\* not await; closes is whether onClose runs at its end
DuplicateBegin(ids, path, origin, closes) ==
    /\ effectiveIds' = ids
    /\ dOrigin' = origin
    /\ UNCHANGED selectedIds
    /\ IF Len(ids) = 0
       THEN /\ calls' = <<>>
            /\ handlerResult' = "returned"
            /\ contextMenu' = IF closes THEN <<>> ELSE contextMenu
            /\ UNCHANGED <<dpc, dRest>>
       ELSE IF path = "single"
       THEN /\ calls' = <<Call("duplicatePanel", <<ids[1]>>, FALSE, "pending")>>
            /\ handlerResult' = "pending"
            /\ dpc' = "awaitSingle"
            /\ dRest' = ids
            /\ UNCHANGED contextMenu
       ELSE IF path = "batch"
       THEN /\ calls' = <<Call("duplicatePanels", ids, FALSE, "pending")>>
            /\ handlerResult' = "pending"
            /\ dpc' = "awaitBatch"
            /\ dRest' = ids
            /\ UNCHANGED contextMenu
       ELSE IF hasSingle
       THEN /\ calls' = <<Call("duplicatePanel", <<ids[1]>>, FALSE, "pending")>>
            /\ handlerResult' = "pending"
            /\ dpc' = "awaitItem"
            /\ dRest' = ids
            /\ UNCHANGED contextMenu
       ELSE /\ calls' = ItemCalls("duplicatePanel", ids, FALSE, [i \in 1..Len(ids) |-> FALSE])
            /\ handlerResult' = HandlerOutcome("item", FALSE)
            /\ contextMenu' = IF closes THEN <<>> ELSE contextMenu
            /\ UNCHANGED <<dpc, dRest>>

\* handleDuplicate; one Duplicate or Remove runs at a time
handleDuplicate ==
    /\ viewMode = "edit"
    /\ contextMenu # <<>>
    /\ dpc = "idle"
    /\ lastOp' = "duplicate"
    /\ LET ids == effectivePanelIds(contextMenu[1], selectedIds)
       IN  DuplicateBegin(ids, PathOf(ids), "menu", TRUE)
    /\ MenuFrame

\* duplicateSelectedPanels.run; the item is disabled while nothing is selected
duplicateSelectedPanels ==
    /\ viewMode = "edit"
    /\ Len(selectedIds) # 0
    /\ dpc = "idle"
    /\ lastOp' = "duplicateTopNav"
    /\ DuplicateBegin(selectedIds, "item", "topnav", FALSE)
    /\ MenuFrame

\* the awaited duplicatePanel or duplicatePanels settles, with ok or with an
\* error, and the Duplicate runs on to its next await or to its end
DuplicateSettles(ok) ==
    LET settled == [calls EXCEPT ![Len(calls)].outcome = OutcomeOf(ok)]
        path == IF dpc = "awaitSingle" THEN "single"
                ELSE IF dpc = "awaitBatch" THEN "batch" ELSE "item"
        rest == Tail(dRest)
    IN  /\ dpc # "idle"
        /\ lastOp' = "duplicateSettles"
        /\ IF path = "item" /\ rest # <<>>
           THEN /\ calls' = Append(settled,
                                   Call("duplicatePanel", <<rest[1]>>, FALSE, "pending"))
                /\ dRest' = rest
                /\ UNCHANGED <<dpc, handlerResult, contextMenu>>
           ELSE /\ calls' = settled
                /\ dRest' = <<>>
                /\ dpc' = "idle"
                /\ handlerResult' = HandlerOutcome(path, ok)
                /\ contextMenu' = IF dOrigin = "menu" THEN <<>> ELSE contextMenu
        /\ UNCHANGED <<selectedIds, dOrigin, effectiveIds>>
        /\ MenuFrame

DuplicateSettle == \E ok \in BOOLEAN : DuplicateSettles(ok)

\* handleRemove, the collaborator's calls ending as oks tells
handleRemove(oks) ==
    LET ids == effectivePanelIds(contextMenu[1], selectedIds)
        path == PathOf(ids)
    IN  /\ viewMode = "edit"
        /\ contextMenu # <<>>
        /\ dpc = "idle"
        /\ lastOp' = "remove"
        /\ effectiveIds' = ids
        /\ contextMenu' = <<>>
        /\ IF Len(ids) = 0
           THEN /\ calls' = <<>>
                /\ handlerResult' = "returned"
                /\ UNCHANGED selectedIds
           ELSE /\ calls' =
                       IF path = "single"
                       THEN <<Call("removePanel", <<ids[1]>>, TRUE, OutcomeOf(oks[1]))>>
                       ELSE IF path = "batch"
                       THEN <<Call("removePanels", ids, TRUE, OutcomeOf(oks[1]))>>
                       ELSE ItemCalls("removePanel", ids, TRUE, oks)
                /\ handlerResult' = HandlerOutcome(path, oks[1])
                /\ selectedIds' = SelectionAfterRemove(selectedIds, ids,
                                                       handlerResult' = "raised")
        /\ UNCHANGED <<dpc, dRest, dOrigin>>
        /\ MenuFrame

ContextMenuRemove == \E oks \in [1..3 -> BOOLEAN] : handleRemove(oks)

\* removeSelectedPanels.run; the item is disabled while nothing is selected
removeSelectedPanels(oks) ==
    LET ids == selectedIds
    IN  /\ viewMode = "edit"
        /\ Len(selectedIds) # 0
        /\ dpc = "idle"
        /\ lastOp' = "removeTopNav"
        /\ effectiveIds' = ids
        /\ calls' = ItemCalls("removePanel", ids, FALSE, oks)
        /\ handlerResult' = HandlerOutcome("item", FALSE)
        /\ selectedIds' = SelectionAfterRemove(ids, ids, FALSE)
        /\ UNCHANGED <<contextMenu, dpc, dRest, dOrigin>>
        /\ MenuFrame

TopNavRemove == \E oks \in [1..3 -> BOOLEAN] : removeSelectedPanels(oks)

GroupCallsFromOne(ids, ok) ==
    IF Len(ids) < 1 THEN <<>>
    ELSE <<Call("movePanelsToNewSection", ids, FALSE, OutcomeOf(ok))>>

\* handleGroup, groupSelectedPanels.run: the calls made for ids
GroupCalls(ids, ok) ==
    IF Len(ids) < 2 THEN <<>>
    ELSE <<Call("movePanelsToNewSection", ids, FALSE, OutcomeOf(ok))>>

\* handleGroup; movePanelsToNewSection returns or raises, and onClose runs
\* after it returned
handleGroup(ok) ==
    LET ids == effectivePanelIds(contextMenu[1], selectedIds)
    IN  /\ viewMode = "edit"
        /\ contextMenu # <<>>
        /\ dpc = "idle"
        /\ lastOp' = "group"
        /\ effectiveIds' = ids
        /\ calls' = GroupCalls(ids, ok)
        /\ handlerResult' = IF calls' # <<>> /\ ~ok THEN "raised" ELSE "returned"
        /\ contextMenu' = IF calls' # <<>> /\ ok THEN <<>> ELSE contextMenu
        /\ UNCHANGED <<selectedIds, dpc, dRest, dOrigin>>
        /\ MenuFrame

ContextMenuGroup == \E ok \in BOOLEAN : handleGroup(ok)

\* groupSelectedPanels.run
groupSelectedPanels(ok) ==
    LET ids == selectedIds
    IN  /\ viewMode = "edit"
        /\ dpc = "idle"
        /\ lastOp' = "groupTopNav"
        /\ effectiveIds' = ids
        /\ calls' = GroupCalls(ids, ok)
        /\ handlerResult' = IF calls' # <<>> /\ ~ok THEN "raised" ELSE "returned"
        /\ UNCHANGED <<selectedIds, contextMenu, dpc, dRest, dOrigin>>
        /\ MenuFrame

TopNavGroup == \E ok \in BOOLEAN : groupSelectedPanels(ok)

NextMenu ==
    \/ SelectPanel
    \/ OpenContextMenu
    \/ handleDuplicate
    \/ duplicateSelectedPanels
    \/ DuplicateSettle
    \/ ContextMenuRemove
    \/ TopNavRemove
    \/ ContextMenuGroup
    \/ TopNavGroup

SpecMenu == InitMenu /\ [][NextMenu]_vars

(***************************************************************************)
(* Duplicate and Remove: properties                                        *)
(***************************************************************************)
IsMenuHandlerStep == lastOp' \in {"duplicate", "remove"}

IsRemoveStep == lastOp' \in {"remove", "removeTopNav"}

\* the Duplicate that ran last took the per-item loop
PerItemDuplicate ==
    \/ dOrigin = "topnav"
    \/ dOrigin = "menu" /\ ~hasBatch /\ (Len(effectiveIds) # 1 \/ ~hasSingle)

\* C27: a context-menu action acts on the clicked panel alone when that panel
\* is not selected and on the whole selection when it is; it acts on nothing
\* only when no panel was clicked.
C27_Step ==
    IsMenuHandlerStep =>
        LET clicked == contextMenu[1]
        IN  /\ (clicked # NoPanel /\ clicked \notin Range(selectedIds)) =>
                   effectiveIds' = <<clicked>>
            /\ (clicked # NoPanel /\ clicked \in Range(selectedIds)) =>
                   effectiveIds' = selectedIds
            /\ effectiveIds' = <<>> => clicked = NoPanel

C27_EffectiveIds == [][C27_Step]_vars

\* Remove on p2, clicked while p3 and p2 were selected, acted on p3 and p2
C27_Witness ==
    /\ lastOp = "remove"
    /\ effectiveIds = <<"p3", "p2">>
    /\ Len(calls) > 0

\* Duplicate on p1, clicked while only p2 was selected, acts on p1 alone
C27_ClickedOnlyReached ==
    /\ lastOp = "duplicate"
    /\ selectedIds = <<"p2">>
    /\ effectiveIds = <<"p1">>

\* C28: a Duplicate that took the per-item loop has, when it ends, attempted
\* every effective id once and in order, whichever attempts failed, and
\* returns normally; a Duplicate that took the single-panel or the batch
\* branch ends with the collaborator's error when its call failed.
C28_DuplicateErrorPolicy ==
    (lastOp \in {"duplicate", "duplicateTopNav", "duplicateSettles"} /\ dpc = "idle") =>
        IF PerItemDuplicate
        THEN /\ handlerResult = "returned"
             /\ Len(calls) = Len(effectiveIds)
             /\ \A i \in 1..Len(calls) :
                    /\ calls[i].fn = "duplicatePanel"
                    /\ calls[i].ids = <<effectiveIds[i]>>
                    /\ calls[i].outcome \in {"ok", "failed"}
        ELSE /\ Len(effectiveIds) > 0 => Len(calls) = 1
             /\ \A i \in 1..Len(calls) :
                    (calls[i].outcome = "failed") <=> (handlerResult = "raised")

\* the per-item loop of the context menu went over three panels, the second
\* attempt failed, the third was made all the same and the handler returned
C28_Witness ==
    /\ lastOp = "duplicateSettles"
    /\ dpc = "idle"
    /\ dOrigin = "menu"
    /\ Len(calls) = 3
    /\ calls[1].outcome = "ok"
    /\ calls[2].outcome = "failed"
    /\ calls[3].outcome = "ok"
    /\ handlerResult = "returned"

\* duplicatePanels failed and the handler ended with its error
C28_BatchRaisedReached ==
    /\ lastOp = "duplicateSettles"
    /\ dpc = "idle"
    /\ Len(calls) = 1
    /\ calls[1].fn = "duplicatePanels"
    /\ calls[1].outcome = "failed"
    /\ handlerResult = "raised"

\* C29: after a Remove the selection is the previous selection without the
\* ids acted on, in the same order, also when the removal collaborator
\* failed for some or for all of them.
C29_Step ==
    IsRemoveStep =>
        selectedIds' = SelectSeq(selectedIds, LAMBDA id : id \notin Range(effectiveIds'))

C29_SelectionMinusActedOn == [][C29_Step]_vars

\* Remove on p1, not selected, next to a selection of p2 and p3: removePanel
\* failed, the handler raised, and the selection is still p2 and p3
C29_Witness ==
    /\ lastOp = "remove"
    /\ effectiveIds = <<"p1">>
    /\ Len(calls) = 1
    /\ calls[1].outcome = "failed"
    /\ handlerResult = "raised"
    /\ selectedIds = <<"p2", "p3">>

\* removePanels failed for a selection of two, which is deselected all the same
C29_BatchFailedReached ==
    /\ lastOp = "remove"
    /\ Len(effectiveIds) = 2
    /\ calls[1].fn = "removePanels"
    /\ calls[1].outcome = "failed"
    /\ selectedIds = <<>>

\* C30: every Remove, whichever branch it takes and wherever it was started,
\* passes captureForUndo to each call of the removal collaborator.
C30_RemoveCapturesUndo ==
    lastOp \in {"remove", "removeTopNav"} =>
        \A i \in 1..Len(calls) : calls[i].captureForUndo

IsGroupStep == lastOp' \in {"group", "groupTopNav"}

\* the panels a Group acts on: the effective ids of the context menu, the
\* selection for the top navigation
GroupTargets ==
    IF lastOp' = "groupTopNav" THEN selectedIds
    ELSE IF contextMenu[1] = NoPanel THEN <<>>
    ELSE IF contextMenu[1] \in Range(selectedIds) THEN selectedIds
    ELSE <<contextMenu[1]>>

\* C31: a Group on fewer than two effective panels calls no collaborator and
\* leaves layout and selection as they were; a Group on two or more calls
\* movePanelsToNewSection exactly once, with exactly the effective ids.
C31_Step ==
    IsGroupStep =>
        /\ Len(GroupTargets) < 2 =>
               /\ calls' = <<>>
               /\ dashboardLayout' = dashboardLayout
               /\ selectedIds' = selectedIds
        /\ Len(GroupTargets) >= 2 =>
               /\ Len(calls') = 1
               /\ calls'[1].fn = "movePanelsToNewSection"
               /\ calls'[1].ids = GroupTargets

C31_GroupNeedsTwo == [][C31_Step]_vars

\* Group on p1, not selected, next to a selection of p2 and p3: no call
C31_Witness ==
    /\ lastOp = "group"
    /\ effectiveIds = <<"p1">>
    /\ selectedIds = <<"p2", "p3">>
    /\ calls = <<>>
    /\ contextMenu = <<"p1">>

\* Group from the top navigation on three selected panels: one call
C31_GroupedReached ==
    /\ lastOp = "groupTopNav"
    /\ Len(selectedIds) = 3
    /\ Len(calls) = 1
    /\ calls[1].ids = selectedIds

\* C32: converting a Layout Model to the rendering grid's layout and back
\* through onLayoutChange gives a model with the same panels, the same x, y,
\* w and h and the same section for each panel, and the same sections: the
\* panels nested in a section widget get that section's id, the top-level
\* panel widgets get none.
C32_RoundTrip ==
    lpc = "roundtrip" =>
        /\ DOMAIN outLayout.panels = DOMAIN inLayout.panels
        /\ \A id \in DOMAIN inLayout.panels :
               LET a == inLayout.panels[id].grid
                   b == outLayout.panels[id].grid
               IN  /\ b.x = a.x
                   /\ b.y = a.y
                   /\ b.w = a.w
                   /\ b.h = a.h
                   /\ b.sectionId = a.sectionId
        /\ outLayout.sections = inLayout.sections
        /\ \A wid \in DOMAIN gridLayout :
               IF gridLayout[wid].type = "section"
               THEN \A pid \in DOMAIN gridLayout[wid].panels :
                        outLayout.panels[pid].grid.sectionId = wid
               ELSE outLayout.panels[wid].grid.sectionId = NoSection

\* in edit mode, a layout with panels in section s1 and panels in the root
\* section went to the grid and back
C32_Witness ==
    /\ lpc = "roundtrip"
    /\ viewMode = "edit"
    /\ \E id \in DOMAIN inLayout.panels : inLayout.panels[id].grid.sectionId = "s1"
    /\ \E id \in DOMAIN inLayout.panels :
           /\ inLayout.panels[id].grid.sectionId = NoSection
           /\ inLayout.panels[id].grid.x # inLayout.panels[id].grid.y
    /\ \E wid \in DOMAIN gridLayout :
           gridLayout[wid].type = "section" /\ DOMAIN gridLayout[wid].panels # {}

(***************************************************************************)
(* Breakdown field of a Lens panel: getBreakdownLayerInfo,                 *)
(* getBreakdownFieldOptions and setBreakdownField                          *)
(*                                                                         *)
(* An optional value is a sequence: <<>> when it is undefined or null,     *)
(* <<v>> when it is v; an optional string is "" when it is undefined.      *)
(* attributes.state.visualization.layers is visLayers and                  *)
(* attributes.state.datasourceStates.formBased.layers is dsLayers; ref is  *)
(* the identity of the attributes object, so that two objects are the same *)
(* object exactly when they are equal as records.                          *)
(***************************************************************************)
MaxGroups == 2
MaxUpdates == 1

\* the strings of the model in the order localeCompare puts them
Collation == <<"agent", "bytes", "host", "region", "traffic">>

\* a.localeCompare(b): negative, zero or positive
localeCompare(a, b) ==
    LET RankOf(str) == CHOOSE i \in 1..Len(Collation) : Collation[i] = str
    IN  RankOf(a) - RankOf(b)

getLayerReferenceName(layerId) == "indexpattern-datasource-layer-" \o layerId

\* getBreakdownLayerInfo: <<>> for undefined, else <<[layerId, columnId,
\* indexPatternId]>>; only the first layer that has a split is looked at
getBreakdownLayerInfo(attributes) ==
    IF attributes.state = <<>> THEN <<>>
    ELSE LET state == attributes.state[1]
             layers == state.visLayers
         IN  IF Len(layers) = 0 THEN <<>>
             ELSE IF state.dsLayers = <<>> THEN <<>>
             ELSE LET dsLayers == state.dsLayers[1]
                      references == attributes.references
                      split == {i \in 1..Len(layers) : layers[i].firstSplit # ""}
                  IN  IF split = {} THEN <<>>
                      ELSE LET layer == layers[CHOOSE i \in split : \A j \in split : i <= j]
                               layerId == layer.layerId
                               ofLayer == IF layerId \in DOMAIN dsLayers
                                          THEN dsLayers[layerId].indexPatternId
                                          ELSE ""
                               named == {i \in 1..Len(references) :
                                            references[i].name = getLayerReferenceName(layerId)}
                               indexPatternId ==
                                   IF ofLayer = "" /\ layerId # ""
                                   THEN IF named = {} THEN ""
                                        ELSE references[CHOOSE i \in named :
                                                           \A j \in named : i <= j].id
                                   ELSE ofLayer
                           IN  IF layerId # "" /\ indexPatternId # ""
                               THEN <<[layerId |-> layerId, columnId |-> layer.firstSplit,
                                       indexPatternId |-> indexPatternId]>>
                               ELSE <<>>

\* dataView.getFieldByName(name): <<>> for undefined
getFieldByName(dataView, name) ==
    IF dataView.fields = <<>> THEN <<>>
    ELSE IF name \in DOMAIN dataView.fields[1] THEN <<dataView.fields[1][name]>>
    ELSE <<>>

\* bucketedFields.set(key, label) on a Map kept as its entries in insertion
\* order: a key that is there keeps its place
MapSet(entries, key, label) ==
    IF \E i \in 1..Len(entries) : entries[i][1] = key
    THEN [i \in 1..Len(entries) |->
             IF entries[i][1] = key THEN <<key, label>> ELSE entries[i]]
    ELSE Append(entries, <<key, label>>)

\* field?.displayName ?? field?.name ?? op.field
LabelOf(dataView, op) ==
    LET field == getFieldByName(dataView, op.field)
    IN  IF field = <<>> THEN op.field
        ELSE IF field[1].displayName # "" THEN field[1].displayName
        ELSE IF field[1].name # "" THEN field[1].name
        ELSE op.field

\* the two loops of getBreakdownFieldOptions over operationsByMetadata
RECURSIVE BucketedOfGroup(_, _, _, _)
BucketedOfGroup(dataView, isBucketed, operations, entries) ==
    IF operations = <<>> THEN entries
    ELSE LET op == Head(operations)
         IN  BucketedOfGroup(dataView, isBucketed, Tail(operations),
                 IF isBucketed /\ op.type = "field"
                 THEN MapSet(entries, op.field, LabelOf(dataView, op))
                 ELSE entries)

RECURSIVE BucketedFields(_, _, _)
BucketedFields(dataView, groups, entries) ==
    IF groups = <<>> THEN entries
    ELSE BucketedFields(dataView, Tail(groups),
             BucketedOfGroup(dataView, Head(groups).isBucketed,
                             Head(groups).operations, entries))

\* the comparator of the sort, ([a], [b]) => a.localeCompare(b): a and b are
\* the first components of the two entries
EntryCompare(e1, e2) == localeCompare(e1[1], e2[1])

\* Array.prototype.sort with EntryCompare: a stable sort
RECURSIVE InsertEntry(_, _)
InsertEntry(sorted, e) ==
    IF sorted = <<>> THEN <<e>>
    ELSE IF EntryCompare(e, Head(sorted)) < 0 THEN <<e>> \o sorted
    ELSE <<Head(sorted)>> \o InsertEntry(Tail(sorted), e)

RECURSIVE SortEntries(_)
SortEntries(entries) ==
    IF entries = <<>> THEN <<>>
    ELSE InsertEntry(SortEntries(SubSeq(entries, 1, Len(entries) - 1)),
                     entries[Len(entries)])

\* getBreakdownFieldOptions after `await dataViews.get(info.indexPatternId)`:
\* get is how the await ended, operations what
\* getAvailableOperationsByMetadata did; any raise is caught
OptionsAfterGet(get, operations) ==
    IF get.kind = "raised" THEN <<>>
    ELSE IF get.dataView = <<>> THEN <<>>
    ELSE IF get.dataView[1].fields = <<>> THEN <<>>
    ELSE IF operations.kind = "raised" THEN <<>>
    ELSE LET sorted == SortEntries(BucketedFields(get.dataView[1], operations.groups, <<>>))
         IN  [i \in 1..Len(sorted) |-> [value |-> sorted[i][1], label |-> sorted[i][2]]]

\* layers?.[info.layerId] of setBreakdownField: <<>> for undefined
RawLayer(attributes, info) ==
    LET dsLayers == attributes.state[1].dsLayers[1]
    IN  IF info.layerId \in DOMAIN dsLayers THEN <<dsLayers[info.layerId]>> ELSE <<>>

\* the try block of setBreakdownField after the await, as [kind, value]:
\* replaced tells whether replaceColumn returned; the new attributes are a new
\* object
SetBreakdownTryReturnsCopy(attributes, fieldName, info, get, replaced) ==
    IF get.kind = "raised" THEN [kind |-> "raised", value |-> attributes]
    ELSE IF get.dataView = <<>>
              \/ getFieldByName(get.dataView[1], fieldName) = <<>>
    THEN [kind |-> "returned", value |-> [attributes EXCEPT !.ref = @ + 1]]
    ELSE [kind |-> "returned", value |-> attributes]

SetBreakdownTry(attributes, fieldName, info, get, replaced) ==
    IF get.kind = "raised" THEN [kind |-> "raised", value |-> attributes]
    ELSE IF get.dataView = <<>>
              \/ getFieldByName(get.dataView[1], fieldName) = <<>>
    THEN [kind |-> "returned", value |-> attributes]
    ELSE IF ~replaced THEN [kind |-> "raised", value |-> attributes]
    ELSE LET rawLayer == RawLayer(attributes, info)[1]
             newLayer == [indexPatternId |->
                              IF rawLayer.indexPatternId # ""
                              THEN rawLayer.indexPatternId
                              ELSE info.indexPatternId,
                          sourceField |-> fieldName]
             dsLayers == attributes.state[1].dsLayers[1]
             newLayers == [id \in DOMAIN dsLayers \cup {info.layerId} |->
                              IF id = info.layerId THEN newLayer ELSE dsLayers[id]]
         IN  [kind |-> "returned",
              value |-> [ref |-> attributes.ref + 1,
                         state |-> <<[attributes.state[1] EXCEPT !.dsLayers = <<newLayers>>]>>,
                         references |-> attributes.references]]

\* setBreakdownField after the await: the try block and its catch
SetBreakdownAfterGet(attributes, fieldName, info, get, replaced) ==
    LET tried == SetBreakdownTry(attributes, fieldName, info, get, replaced)
    IN  IF tried.kind = "raised"
        THEN [kind |-> "returned", value |-> attributes]
        ELSE tried

(***************************************************************************)
(* SpecLens: the embeddable's two breakdown-field methods                  *)
(***************************************************************************)
FieldNames == {"bytes", "host"}
OperationFields == {"bytes", "host", "region"}
DisplayNames == {"", "agent", "traffic"}

VisLayers == [layerId : {"", "l1"}, firstSplit : {"", "c1"}]

VisLayerInputs ==
    {<<>>} \cup {<<l>> : l \in VisLayers}
           \cup {<<[layerId |-> "l1", firstSplit |-> ""],
                   [layerId |-> "l1", firstSplit |-> "c1"]>>,
                 <<[layerId |-> "", firstSplit |-> "c1"],
                   [layerId |-> "l1", firstSplit |-> "c1"]>>}

DsLayerInputs ==
    {<<>>, << <<>> >>}
        \cup {<<[id \in {"l1"} |-> [indexPatternId |-> ip, sourceField |-> "region"]]>> :
                 ip \in {"", "dv1"}}

ReferenceInputs ==
    {<<>>, <<[name |-> getLayerReferenceName("l1"), id |-> "dv1"]>>}

AttributeInputs ==
    {[ref |-> 0, state |-> <<>>, references |-> <<>>]}
        \cup {[ref |-> 0, state |-> <<[visLayers |-> v, dsLayers |-> d]>>, references |-> r] :
                 v \in VisLayerInputs, d \in DsLayerInputs, r \in ReferenceInputs}

DataViews ==
    {[fields |-> <<>>]}
        \cup UNION {{[fields |-> <<[n \in names |-> [name |-> n, displayName |-> dn[n]]]>>] :
                        dn \in [names -> DisplayNames]} : names \in SUBSET FieldNames}

\* how `await dataViews.get(id)` can end
GetOutcomes ==
    {[kind |-> "raised", dataView |-> <<>>], [kind |-> "resolved", dataView |-> <<>>]}
        \cup {[kind |-> "resolved", dataView |-> <<dv>>] : dv \in DataViews}

GetPending == [kind |-> "pending", dataView |-> <<>>]

Operations ==
    [type : {"field"}, field : OperationFields]
        \cup {[type |-> "fullReference", field |-> "bytes"]}

\* a bucketed group of no, one or two operations, or a group that is not
\* bucketed
OperationGroups ==
    [isBucketed : {TRUE}, operations : {<<>>} \cup {<<op>> : op \in Operations}]
        \cup {[isBucketed |-> TRUE,
                operations |-> <<[type |-> "field", field |-> "host"],
                                 [type |-> "field", field |-> "bytes"]>>],
              [isBucketed |-> FALSE,
               operations |-> <<[type |-> "field", field |-> "bytes"]>>]}

\* what getAvailableOperationsByMetadata can do: raise, or return at most
\* MaxGroups groups
OperationOutcomes ==
    {[kind |-> "raised", groups |-> <<>>]}
        \cup UNION {{[kind |-> "returned", groups |-> g] : g \in [1..n -> OperationGroups]} :
                       n \in 0..MaxGroups}

InitLens ==
    /\ UndoManagerInit
    /\ LayoutCallIdle
    /\ DashboardIdle
    /\ GridIdle
    /\ MenuIdle
    /\ ApiIdle
    /\ lensAttributes \in AttributeInputs
    /\ bpc = "idle"
    /\ bCall = <<>>
    /\ bOptions = <<>>
    /\ bResult = <<>>
    /\ updateCalls = <<>>

LensFrame ==
    /\ UNCHANGED <<stack, canUndo, pending, ran, nextId>>
    /\ UNCHANGED layoutVars
    /\ UNCHANGED dashVars
    /\ UNCHANGED gridVars
    /\ UNCHANGED menuVars

\* api.getBreakdownFieldOptions() up to its await, or to its return when
\* there is no breakdown layer
getBreakdownFieldOptions ==
    /\ bpc = "idle"
    /\ bCall' = <<[attributes |-> lensAttributes, fieldName |-> "",
                   get |-> GetPending, replaced |-> FALSE]>>
    /\ bResult' = <<>>
    /\ IF getBreakdownLayerInfo(lensAttributes) = <<>>
       THEN /\ bpc' = "optionsReturned"
            /\ bOptions' = <<>>
            /\ lastOp' = "optionsNoInfo"
       ELSE /\ bpc' = "optionsAwait"
            /\ lastOp' = "optionsCall"
            /\ UNCHANGED bOptions
    /\ UNCHANGED <<lensAttributes, updateCalls>>
    /\ LensFrame

\* the await of getBreakdownFieldOptions ends
OptionsSettle(get, operations) ==
    /\ bpc = "optionsAwait"
    /\ bpc' = "optionsReturned"
    /\ bCall' = <<[bCall[1] EXCEPT !.get = get]>>
    /\ bOptions' = OptionsAfterGet(get, operations)
    /\ lastOp' = "optionsSettle"
    /\ UNCHANGED <<lensAttributes, bResult, updateCalls>>
    /\ LensFrame

GetBreakdownFieldOptionsSettle ==
    \E get \in GetOutcomes, operations \in OperationOutcomes :
        OptionsSettle(get, operations)

\* the end of api.setBreakdownField once setBreakdownField (Impl) has ended
\* with result: updateAttributes when another object came back
UpdateIfChanged(attributes, result) ==
    /\ bResult' = <<result>>
    /\ IF result.kind = "returned" /\ result.value # attributes
       THEN /\ lensAttributes' = result.value
            /\ updateCalls' = Append(updateCalls, result.value)
       ELSE UNCHANGED <<lensAttributes, updateCalls>>

\* api.setBreakdownField(fieldName) up to the await of setBreakdownField
\* (Impl), or to its end when the layer is not found
setBreakdownField(fieldName) ==
    /\ bpc = "idle"
    /\ lensAttributes.ref < MaxUpdates
    /\ bCall' = <<[attributes |-> lensAttributes, fieldName |-> fieldName,
                   get |-> GetPending, replaced |-> FALSE]>>
    /\ LET info == getBreakdownLayerInfo(lensAttributes)
       IN  IF info = <<>> \/ (info # <<>> /\ RawLayer(lensAttributes, info[1]) = <<>>)
           THEN /\ bpc' = "setReturned"
                /\ UpdateIfChanged(lensAttributes,
                                   [kind |-> "returned", value |-> lensAttributes])
                /\ lastOp' = "setNoLayer"
           ELSE /\ bpc' = "setAwait"
                /\ bResult' = <<>>
                /\ lastOp' = "setCall"
                /\ UNCHANGED <<lensAttributes, updateCalls>>
    /\ UNCHANGED bOptions
    /\ LensFrame

SetBreakdownFieldCall == \E fieldName \in OperationFields : setBreakdownField(fieldName)

\* the await of setBreakdownField (Impl) ends and api.setBreakdownField with it
SetSettle(get, replaced) ==
    /\ bpc = "setAwait"
    /\ bpc' = "setReturned"
    /\ bCall' = <<[bCall[1] EXCEPT !.get = get, !.replaced = replaced]>>
    /\ LET attributes == bCall[1].attributes
           info == getBreakdownLayerInfo(attributes)[1]
       IN  UpdateIfChanged(attributes,
               SetBreakdownAfterGet(attributes, bCall[1].fieldName, info, get, replaced))
    /\ lastOp' = "setSettle"
    /\ UNCHANGED bOptions
    /\ LensFrame

SetBreakdownFieldSettle ==
    \E get \in GetOutcomes, replaced \in BOOLEAN : SetSettle(get, replaced)

\* the caller goes on after the method's promise has resolved, and what the
\* call resolved to is dropped
LensCallEnds ==
    /\ bpc \in {"optionsReturned", "setReturned"}
    /\ bpc' = "idle"
    /\ bCall' = <<>>
    /\ bOptions' = <<>>
    /\ bResult' = <<>>
    /\ lastOp' = "callEnds"
    /\ UNCHANGED <<lensAttributes, updateCalls>>
    /\ LensFrame

NextLens ==
    \/ getBreakdownFieldOptions
    \/ GetBreakdownFieldOptionsSettle
    \/ SetBreakdownFieldCall
    \/ SetBreakdownFieldSettle
    \/ LensCallEnds

SpecLens == InitLens /\ [][NextLens]_vars

(***************************************************************************)
(* Breakdown field: properties                                             *)
(***************************************************************************)
\* C33: the options getBreakdownFieldOptions returns are in ascending order
\* of their labels: no option's label sorts after the label of the option
\* that follows it.
C33_OptionsSortedByLabel ==
    bpc = "optionsReturned" =>
        \A i \in 1..(Len(bOptions) - 1) :
            localeCompare(bOptions[i].label, bOptions[i + 1].label) <= 0

\* the layer, the data view or the named field of a setBreakdownField call
\* was not found, or the lookup of the data view raised
Unresolved(call) ==
    LET info == getBreakdownLayerInfo(call.attributes)
    IN  \/ info = <<>>
        \/ (info # <<>> /\ RawLayer(call.attributes, info[1]) = <<>>)
        \/ call.get.kind = "raised"
        \/ (call.get.kind = "resolved" /\ call.get.dataView = <<>>)
        \/ (call.get.kind = "resolved" /\ call.get.dataView # <<>>
              /\ getFieldByName(call.get.dataView[1], call.fieldName) = <<>>)

\* C34: when the breakdown layer, the data view or the named field is not
\* found, or looking the data view up raises, setBreakdownField returns, and
\* what it returns is the attributes object it was given; the embeddable's
\* setBreakdownField then makes no updateAttributes call and the latest
\* attributes stay what they were.
C34_Step ==
    (bpc' = "setReturned" /\ bpc # "setReturned" /\ Unresolved(bCall'[1])) =>
        /\ bResult' = <<[kind |-> "returned", value |-> bCall'[1].attributes]>>
        /\ updateCalls' = updateCalls
        /\ lensAttributes' = lensAttributes
        /\ lensAttributes' = bCall'[1].attributes

C34_UnresolvedReturnsInput == [][C34_Step]_vars

\* the data view was found and has fields, but not the named one
C34_Witness ==
    /\ bpc = "setReturned"
    /\ lastOp = "setSettle"
    /\ bCall[1].get.kind = "resolved"
    /\ bCall[1].get.dataView # <<>>
    /\ bCall[1].get.dataView[1].fields # <<>>
    /\ DOMAIN bCall[1].get.dataView[1].fields[1] # {}
    /\ bCall[1].fieldName \notin DOMAIN bCall[1].get.dataView[1].fields[1]
    /\ bResult[1].value = bCall[1].attributes
    /\ updateCalls = <<>>

\* looking the data view up raised
C34_LookupRaisedReached ==
    /\ bpc = "setReturned"
    /\ bCall[1].get.kind = "raised"
    /\ bResult[1].kind = "returned"

\* the layer is not in the datasource state although its index pattern is
\* found among the references
C34_NoLayerReached ==
    /\ bpc = "setReturned"
    /\ lastOp = "setNoLayer"
    /\ getBreakdownLayerInfo(bCall[1].attributes) # <<>>

\* the field was found and the column replaced: another object came back and
\* updateAttributes was called with it
C34_UpdatedReached ==
    /\ bpc = "setReturned"
    /\ ~Unresolved(bCall[1])
    /\ updateCalls = <<bResult[1].value>>
    /\ lensAttributes # bCall[1].attributes

(***************************************************************************)
(* Selection drag: the click after a drag                                  *)
(***************************************************************************)
\* C35: the mouseup that ends a drag leaves no live rectangle and no
\* preview; the click of that mouseup leaves the selection as it was; and a
\* click on the empty background that is not the click of a drag's mouseup
\* is never taken for one: in edit mode it leaves the selection empty,
\* whether or not the click of an earlier drag ever reached the grid.
C35_Step ==
    /\ (IsMouseUpStep /\ dragStateRef # <<>>) =>
           /\ dragStateRef' = <<>>
           /\ selectionDrag' = <<>>
           /\ previewSelectedPanelIds' = <<>>
    /\ (IsGridClickStep /\ pendingClick = "afterDrag") => selectedIds' = selectedIds
    /\ (/\ IsGridClickStep
        /\ pendingClick = "plain"
        /\ lastOp' = "clickBackground"
        /\ viewMode = "edit") => selectedIds' = <<>>

C35_OnlyTheDragsClickSuppressed == [][C35_Step]_vars

(***************************************************************************)
(* SpecHistory: a bulk rearrange, later layout changes, and the undo        *)
(***************************************************************************)
\* the rows a drag can leave a panel at
DragRows == {20}

\* the top-nav item "prettify" on the dashboard's layout
HistoryPrettify ==
    /\ viewMode = "edit"
    /\ dashboardLayout' = prettifyDashboard(dashboardLayout)
    /\ inLayout' = dashboardLayout
    /\ outLayout' = prettifyDashboard(dashboardLayout)
    /\ inMode' = "prettify"
    /\ lpc' = "prettified"
    /\ lastOp' = "prettify"
    /\ UNCHANGED <<stack, canUndo, pending, ran, nextId>>
    /\ UNCHANGED <<selectedIds, attrs, spc, sSource, sEmbeddable, sIds, sPrev, upc,
                   uRest, beforeRearrange>>
    /\ UNCHANGED <<inSelected, outRaised, gridLayout, outAgain>>
    /\ UNCHANGED gridVars
    /\ UNCHANGED menuVars
    /\ UNCHANGED lensVars

\* a panel was dragged to another row: the grid reports its layout and
\* onLayoutChange writes the Layout Model
HistoryLayoutChange ==
    \E id \in DOMAIN dashboardLayout.panels, row \in DragRows :
        LET newLayout == toGridLayout([dashboardLayout EXCEPT !.panels[id].grid.y = row])
            updated == onLayoutChange(viewMode, dashboardLayout, newLayout)
        IN  /\ dashboardLayout.panels[id].grid.y # row
            /\ dashboardLayout' = updated
            /\ gridLayout' = newLayout
            /\ inLayout' = dashboardLayout
            /\ outLayout' = updated
            /\ inMode' = "layoutChange"
            /\ lpc' = "converted"
            /\ lastOp' = "layoutChange"
            /\ UNCHANGED <<stack, canUndo, pending, ran, nextId>>
            /\ UNCHANGED <<selectedIds, attrs, spc, sSource, sEmbeddable, sIds, sPrev,
                           upc, uRest,
                           beforeRearrange>>
            /\ UNCHANGED <<inSelected, outRaised, outAgain>>
            /\ UNCHANGED gridVars
            /\ UNCHANGED menuVars
            /\ UNCHANGED lensVars

NextHistory ==
    \/ SelectPanel
    \/ KeysRearrange
    \/ HistoryPrettify
    \/ HistoryLayoutChange
    \/ UndoKey

SpecHistory == InitKeys /\ [][NextHistory]_vars

\* C36: the undo entry of a bulk rearrange holds the whole layout as it was
\* when the entry was pushed; no later layout change (a drag, prettify,
\* another rearrange) alters an entry that is on the stack; and running the
\* entry makes the Layout Model that snapshot, whatever the layout was.
C36_Step ==
    /\ lastOp' = "rearrange" =>
           stack' = Append(stack, LayoutUndoEntry(dashboardLayout))
    /\ \A i \in 1..Len(stack) : i <= Len(stack') => stack'[i] = stack[i]
    /\ lastOp' = "undoLayout" =>
           /\ Len(stack) > 0
           /\ dashboardLayout' = stack[Len(stack)].snapshot
           /\ stack' = SubSeq(stack, 1, Len(stack) - 1)

C36_DragAfterPushReached ==
    /\ lastOp = "layoutChange"
    /\ inLayout = beforeRearrange.after
    /\ dashboardLayout # beforeRearrange.after
    /\ dashboardLayout # beforeRearrange.before
    /\ stack = <<LayoutUndoEntry(beforeRearrange.before)>>

(***************************************************************************)
(* SpecShare: the share-color-mapping action over three Lens panels and a  *)
(* markdown panel, and the undo shortcut                                   *)
(***************************************************************************)
ShareInitLayout ==
    [DashInitLayout EXCEPT !.panels =
        [id \in {"p1", "p2", "p3", "p4"} |->
            IF id = "p4"
            THEN [type |-> "lens",
                  grid |-> [x |-> 24, y |-> 0, w |-> 24, h |-> 8, sectionId |-> "s1"]]
            ELSE DashInitLayout.panels[id]]]

ShareInitAttrs ==
    [id \in {"p1", "p2", "p4"} |->
        IF id = "p4"
        THEN [title |-> "d", layers |-> <<[layerId |-> "l1", palette |-> "cool",
                                            colorMapping |-> "byRange"]>>]
        ELSE DashInitAttrs[id]]

InitShare ==
    /\ UndoManagerInit
    /\ LayoutCallIdle
    /\ GridIdle
    /\ MenuIdle
    /\ LensIdle
    /\ ApiIdle
    /\ dashboardLayout = ShareInitLayout
    /\ selectedIds = <<>>
    /\ attrs = ShareInitAttrs
    /\ spc = "idle"
    /\ sSource = <<>>
    /\ sEmbeddable = "none"
    /\ sIds = <<>>
    /\ sPrev = <<>>
    /\ upc = "idle"
    /\ uRest = <<>>
    /\ beforeRearrange = [before |-> EmptyLayout, after |-> EmptyLayout]

NextShare ==
    \/ SelectPanel
    \/ ShareStart
    \/ ShareChildResolved
    \/ UndoKey
    \/ UndoChildResolved

SpecShare == InitShare /\ [][NextShare]_vars

\* execute called target.updateAttributes in this step: the awaited panel has
\* the attributes API and layers
ModifiesTarget ==
    /\ spc = "awaitChild"
    /\ lastOp' = "share"
    /\ Head(sIds) \in DOMAIN attrs
    /\ Len(attrs[Head(sIds)].layers) > 0

\* what this step read from the panel it modifies
ReadBefore == [panelId |-> Head(sIds), attributes |-> attrs[Head(sIds)]]

\* the targets execute has modified up to and including this step, each
\* with the attributes read before it was modified
ModifiedSoFar == IF ModifiesTarget THEN Append(sPrev, ReadBefore) ELSE sPrev

\* C37: execute changes the attributes of the panels it modifies and of no
\* other, never of its source panel; when it ends having modified at least
\* one target it has pushed exactly one undo entry, which lists each modified
\* panel once with the attributes read before the modification and does not
\* list the source; when it ends having modified none the stack is as it
\* was; and running the entry sets each listed panel's attributes to the
\* listed value and changes nothing else.
C37_Step ==
    /\ (spc = "awaitChild" /\ lastOp' = "share") =>
           /\ \A id \in DOMAIN attrs :
                  (~ModifiesTarget \/ id # Head(sIds)) => attrs'[id] = attrs[id]
           /\ attrs'[sEmbeddable] = attrs[sEmbeddable]
           /\ spc' = "awaitChild" => (sPrev' = ModifiedSoFar /\ stack' = stack)
           /\ (spc' = "idle" /\ ModifiedSoFar # <<>>) =>
                  /\ stack' = Append(stack, AttributesUndoEntry(ModifiedSoFar))
                  /\ \A i \in 1..Len(ModifiedSoFar) :
                         /\ ModifiedSoFar[i].panelId # sEmbeddable
                         /\ \A j \in 1..Len(ModifiedSoFar) :
                                ModifiedSoFar[j].panelId = ModifiedSoFar[i].panelId => j = i
           /\ (spc' = "idle" /\ ModifiedSoFar = <<>>) => stack' = stack
    /\ (spc = "idle" /\ lastOp' = "share") =>
           /\ attrs' = attrs
           /\ stack' = stack
    /\ lastOp' = "undoAttrs" =>
           /\ uRest' = stack[Len(stack)].previous
           /\ attrs' = attrs
    /\ lastOp' = "undoStep" =>
           /\ attrs'[Head(uRest).panelId] = Head(uRest).attributes
           /\ \A id \in DOMAIN attrs : id # Head(uRest).panelId => attrs'[id] = attrs[id]
           /\ uRest' = Tail(uRest)

C37_OneEntryRestoresTargets == [][C37_Step]_vars

\* p2's color mapping was shared to p1 and p4, one entry was pushed, and the
\* undo has put back the attributes of both
C37_Witness ==
    /\ lastOp = "undoStep"
    /\ upc = "idle"
    /\ attrs = ShareInitAttrs
    /\ stack = <<>>
    /\ nextId = 2
    /\ ran = <<>>
    /\ Len(selectedIds) >= 3

\* execute has ended having modified two targets: one entry listing both
C37_TwoTargetsReached ==
    /\ lastOp = "share"
    /\ spc = "idle"
    /\ Len(stack) = 1
    /\ stack[1].kind = "attrs"
    /\ Len(stack[1].previous) = 2
    /\ \A i \in 1..2 : attrs[stack[1].previous[i].panelId] # stack[1].previous[i].attributes

\* execute waits for its last target, the markdown panel, having modified none
C37_NoTargetReached ==
    /\ spc = "awaitChild"
    /\ sIds = <<"p3">>
    /\ sPrev = <<>>
    /\ stack = <<>>

(***************************************************************************)
(* Undo manager: runUndo while a reversal is pending                       *)
(***************************************************************************)
IsSettleStep == lastOp' \in {"resolve", "raise"} /\ pending' = pending - 1

\* C38: a runUndo made while an earlier reversal is pending starts the
\* entry on top of the stack as it is at that call, an entry never started
\* before, and takes it off; no entry is ever started twice; an entry pushed
\* while a reversal is pending is on the stack and not started, the settling
\* of a pending reversal neither starts nor removes anything, and an entry
\* leaves the stack only by being started by a runUndo or by the eviction of
\* the oldest entry at a push on a full stack.
C38_Step ==
    /\ (IsUndoStep /\ pending > 0) =>
           /\ ran' = Append(ran, stack[Len(stack)])
           /\ stack' = SubSeq(stack, 1, Len(stack) - 1)
    /\ IsUndoStep => \A i \in 1..Len(ran) : ran[i] # ran'[Len(ran')]
    /\ (IsPushStep /\ pending > 0) =>
           /\ stack'[Len(stack')] = nextId
           /\ ran' = ran
    /\ IsSettleStep =>
           /\ stack' = stack
           /\ ran' = ran
    /\ \/ stack' = stack
       \/ IsUndoStep /\ stack' = SubSeq(stack, 1, Len(stack) - 1)
       \/ IsPushStep /\ Len(stack) < MAX_UNDO_STACK /\ stack' = Append(stack, nextId)
       \/ IsPushStep /\ Len(stack) = MAX_UNDO_STACK /\ stack' = Append(Tail(stack), nextId)

C38_PendingUndoKeepsOrder == [][C38_Step]_vars

\* entries 1 and 2 were pushed, 2 was started, entry 3 was pushed while that
\* reversal was pending, a second runUndo started 3, both reversals are still
\* pending and entry 1 is on the stack
C38_Witness ==
    /\ pending = 2
    /\ ran = <<2, 3>>
    /\ stack = <<1>>
    /\ lastOp = "undo"

\* the reversal of 2 settled while entry 3, pushed during it, stayed on the
\* stack
C38_PushedDuringPendingKept ==
    /\ pending = 0
    /\ ran = <<2>>
    /\ stack = <<1, 3>>
    /\ lastOp \in {"resolve", "raise"}

\* C39: whenever the stack is non-empty canUndo is true, and whenever no
\* reversal is pending canUndo is true exactly when the stack is non-empty.
C39_CanUndoTracksStack ==
    /\ stack # <<>> => canUndo
    /\ pending = 0 => (canUndo <=> stack # <<>>)

\* an entry was pushed while a reversal was pending and that reversal has
\* settled: nothing is pending, the stack is non-empty and canUndo is true
C39_Witness ==
    /\ pending = 0
    /\ lastOp \in {"resolve", "raise"}
    /\ ran # <<>>
    /\ stack # <<>>
    /\ stack[Len(stack)] > ran[Len(ran)]
    /\ canUndo

\* the only entry was started and its reversal is pending: the stack is
\* empty and canUndo is still true
C39_PendingOnEmptyReached ==
    /\ pending > 0
    /\ stack = <<>>
    /\ canUndo

(***************************************************************************)
(* Bulk rearrange: the rectangles of the rearranged panels                 *)
(***************************************************************************)
\* the interiors of the rectangles of grids a and b have a point in common
InteriorsOverlap(a, b) ==
    /\ a.x < b.x + b.w
    /\ b.x < a.x + a.w
    /\ a.y < b.y + b.h
    /\ b.y < a.y + a.h

\* C40: in the layout a bulk rearrange returns, in every mode, no two of the
\* rearranged panels have rectangles whose interiors overlap, and every
\* rearranged panel ends at or before column 48 (x + w <= 48).
C40_RearrangedPanelsDisjoint ==
    (lpc = "applied" /\ ~outRaised) =>
        /\ \A p, q \in SelectedPresent :
               p # q => ~InteriorsOverlap(OutGrid(p), OutGrid(q))
        /\ \A p \in SelectedPresent :
               /\ OutGrid(p).x >= 0
               /\ OutGrid(p).x + OutGrid(p).w <= GRID_COLUMN_COUNT

\* side mode has stacked three panels to the right of the left one, panels
\* that overlapped before the call
C40_Witness ==
    /\ lpc = "applied"
    /\ inMode = "side"
    /\ Cardinality(SelectedPresent) >= 4
    /\ \E p, q \in SelectedPresent : p # q /\ InteriorsOverlap(InGrid(p), InGrid(q))
    /\ \E p \in SelectedPresent : Rect(OutGrid(p)) = <<24, 10, 24, 5>>

\* header mode on more panels than the grid has columns
C40_HeaderWideReached ==
    /\ lpc = "applied"
    /\ inMode = "header"
    /\ Cardinality(SelectedPresent) > GRID_COLUMN_COUNT

\* grid mode has filled more than one row
C40_GridRowsReached ==
    /\ lpc = "applied"
    /\ inMode = "grid"
    /\ Cardinality(SelectedPresent) >= 4
    /\ \E p \in SelectedPresent : Rect(OutGrid(p)) = <<0, 10, 16, 10>>

====
